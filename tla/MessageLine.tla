----------------------------- MODULE MessageLine ----------------------------
(***************************************************************************)
(* What the MQTT client of gemq promises those who publish, whatever       *)
(* happens to its connection: a line that a message joins unless it is     *)
(* full or was not open yet when the message came, and leaves when its     *)
(* turn has come; the broker gets the first in line and those that have    *)
(* left it in vain.  Emq implements this specification.                    *)
(***************************************************************************)
EXTENDS Naturals, Sequences

CONSTANTS Msgs, Cap

VARIABLES open,  (* the line can be joined                                 *)
          line,  (* the messages that wait or are published, in order      *)
          fate,  (* fate[m]: new, early, offered, queued, sent, failed,    *)
                 (* dropped                                                *)
          got    (* what the broker has got                                *)

lineVars == <<open, line, fate, got>>

Init == open = FALSE /\ line = <<>> /\ got = <<>> /\ fate = [m \in Msgs |-> "new"]

Move(m, from, to) == fate[m] = from /\ fate' = [fate EXCEPT ![m] = to]

Open == ~open /\ open' = TRUE /\ UNCHANGED <<line, fate, got>>

(* One that comes before the line is open is early, and stays so.          *)
Offer(m) == /\ Move(m, "new", IF open THEN "offered" ELSE "early")
            /\ UNCHANGED <<open, line, got>>

(* Beside those that wait one can be on its way.                           *)
Join(m) == /\ open /\ Len(line) <= Cap
           /\ Move(m, "offered", "queued")
           /\ line' = Append(line, m)
           /\ UNCHANGED <<open, got>>

Refuse(m) == /\ \/ Move(m, "early", "dropped")
                \/ Len(line) >= Cap /\ Move(m, "offered", "dropped")
             /\ UNCHANGED <<open, line, got>>

Arrive(m) == /\ (line # <<>> /\ m = Head(line)) \/ fate[m] = "failed"
             /\ got' = Append(got, m)
             /\ UNCHANGED <<open, line, fate>>

Leave(m) == /\ line # <<>> /\ m = Head(line)
            /\ \/ Move(m, "queued", "failed")
               \/ Move(m, "queued", "sent") /\ \E i \in DOMAIN got : got[i] = m
            /\ line' = Tail(line)
            /\ UNCHANGED <<open, got>>

Next == Open \/ \E m \in Msgs : Offer(m) \/ Join(m) \/ Refuse(m) \/ Arrive(m) \/ Leave(m)
=============================================================================
