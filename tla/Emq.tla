-------------------------------- MODULE Emq ---------------------------------
(***************************************************************************)
(* The MQTT client of gemq: publishers hand their messages to a buffered   *)
(* channel, one goroutine takes them out and publishes them, each within   *)
(* a time limit.  The goroutine runs only once Dial has connected in time; *)
(* the client itself keeps trying to connect.  And the access rules that   *)
(* the broker asks the server for.                                         *)
(***************************************************************************)
EXTENDS Naturals, Sequences, FiniteSets, SequencesExt

CONSTANTS
  Msgs,   (* the messages to publish                                       *)
  Users,  (* the users of the broker beside the super user                 *)
  Cap,    (* the capacity of pubC                                          *)
  None    (* no message                                                    *)

(* A capacity can be any, None is no message. *)
EmqConstants == Cap \in Nat /\ None \notin Msgs

VARIABLES
  made,    (* Constructor has made pubC                                    *)
  client,  (* the connection: "none", "tries", "up"                        *)
  loop,    (* the publish loop: "off", "on"                                *)
  dialpc,  (* Dial: "before", "waits", "failed", "over"                    *)
  pubC,    (* the channel                                                  *)
  hand,    (* the message that the loop publishes, or None                 *)
  msg,     (* msg[m]: "new", "early", "offered", "queued", "sent",         *)
           (* "failed", "dropped"                                          *)
  broker,  (* what the broker has got, in order                            *)
  spoke    (* who has published which kind of topic (history)              *)

emqVars == <<made, client, loop, dialpc, pubC, hand, msg, broker, spoke>>

Super == "super"

(* A topic is one of the application's, "other" or "pong" by its end, or   *)
(* "foreign" when it has another prefix.                                   *)
Topics == {"foreign", "pong", "other"}

Init == /\ made = FALSE /\ client = "none" /\ loop = "off" /\ dialpc = "before"
        /\ pubC = <<>> /\ hand = None /\ broker = <<>>
        /\ msg = [m \in Msgs |-> "new"]
        /\ spoke = {}

-----------------------------------------------------------------------------
Constructor ==
  /\ ~made
  /\ made' = TRUE
  /\ UNCHANGED <<client, loop, dialpc, pubC, hand, msg, broker, spoke>>

Dial ==
  /\ made /\ dialpc = "before"
  /\ dialpc' = "waits"
  /\ client' = "tries"
  /\ UNCHANGED <<made, loop, pubC, hand, msg, broker, spoke>>

Connected ==
  /\ client = "tries"
  /\ client' = "up"
  /\ UNCHANGED <<made, loop, dialpc, pubC, hand, msg, broker, spoke>>

Lost ==
  /\ client = "up"
  /\ client' = "tries"
  /\ UNCHANGED <<made, loop, dialpc, pubC, hand, msg, broker, spoke>>

(* dial has its token: start. *)
Started ==
  /\ dialpc = "waits" /\ client = "up"
  /\ dialpc' = "over"
  /\ loop' = "on"
  /\ UNCHANGED <<made, client, pubC, hand, msg, broker, spoke>>

(* ErrTokenTimeout, or the broker refuses: no loop. *)
DialFails ==
  /\ dialpc = "waits"
  /\ dialpc' = "failed"
  /\ UNCHANGED <<made, client, loop, pubC, hand, msg, broker, spoke>>

-----------------------------------------------------------------------------
(* PublishC: select waits at most 100 ms for room in the channel that it   *)
(* has evaluated when it began: a call that was early, before Constructor, *)
(* waits on nil, also when the channel has been made meanwhile.            *)
PublishC(m) ==
  /\ msg[m] = "new"
  /\ msg' = [msg EXCEPT ![m] = IF made THEN "offered" ELSE "early"]
  /\ UNCHANGED <<made, client, loop, dialpc, pubC, hand, broker, spoke>>

(* Whether there is room; two mutants count one less and one more. *)
OneLess(q) == Len(q) + 1 < Cap
OneMore(q) == Len(q) <= Cap
Room(q) == Len(q) < Cap

Queue(m) ==
  /\ msg[m] = "offered"
  /\ Room(pubC)
  /\ pubC' = Append(pubC, m)
  /\ msg' = [msg EXCEPT ![m] = "queued"]
  /\ UNCHANGED <<made, client, loop, dialpc, hand, broker, spoke>>

(* The time is over, which is logged.  Select looks at the channel before  *)
(* the 100 ms are over, and then a place that comes free is its own.       *)
Drop(m) ==
  /\ msg[m] = "early" \/ (msg[m] = "offered" /\ ~Room(pubC))
  /\ msg' = [msg EXCEPT ![m] = "dropped"]
  /\ UNCHANGED <<made, client, loop, dialpc, pubC, hand, broker, spoke>>

(* start: one message after the other. *)
Take ==
  /\ loop = "on" /\ hand = None /\ pubC # <<>>
  /\ hand' = Head(pubC)
  /\ pubC' = Tail(pubC)
  /\ UNCHANGED <<made, client, loop, dialpc, msg, broker, spoke>>

(* The broker gets it, also after the time limit and, with qos 1, again.   *)
Deliver(m) ==
  /\ client = "up"
  /\ m = hand \/ (msg[m] = "failed" /\ m \notin ToSet(broker))
  /\ Len(SelectSeq(broker, LAMBDA x : x = m)) < 2
  /\ broker' = Append(broker, m)
  /\ UNCHANGED <<made, client, loop, dialpc, pubC, hand, msg, spoke>>

Acknowledged ==
  /\ hand # None /\ client = "up" /\ hand \in ToSet(broker)
  /\ msg' = [msg EXCEPT ![hand] = "sent"]
  /\ hand' = None
  /\ UNCHANGED <<made, client, loop, dialpc, pubC, broker, spoke>>

(* ErrTokenTimeout, which is logged. *)
PublishFails ==
  /\ hand # None
  /\ msg' = [msg EXCEPT ![hand] = "failed"]
  /\ hand' = None
  /\ UNCHANGED <<made, client, loop, dialpc, pubC, broker, spoke>>

-----------------------------------------------------------------------------
(* ACL: access is "subscribe" or "publish". *)
ACL(user, access, topic) ==
  /\ topic # "foreign"
  /\ user = Super \/ access = "subscribe" \/ topic = "pong"

Speak(u, topic) ==
  /\ <<u, topic>> \notin spoke
  /\ ACL(u, "publish", topic)
  /\ spoke' = spoke \cup {<<u, topic>>}
  /\ UNCHANGED <<made, client, loop, dialpc, pubC, hand, msg, broker>>

Next == \/ Constructor \/ Dial \/ Connected \/ Lost \/ Started \/ DialFails
        \/ Take \/ Acknowledged \/ PublishFails
        \/ \E m \in Msgs : PublishC(m) \/ Queue(m) \/ Drop(m) \/ Deliver(m)
        \/ \E u \in Users \cup {Super}, t \in Topics : Speak(u, t)

Spec == Init /\ [][Next]_emqVars

-----------------------------------------------------------------------------
TypeOK ==
  /\ client \in {"none", "tries", "up"} /\ loop \in {"off", "on"}
  /\ dialpc \in {"before", "waits", "failed", "over"}
  /\ pubC \in Seq(Msgs) /\ Len(pubC) <= Cap /\ hand \in Msgs \cup {None}
  /\ msg \in [Msgs -> {"new", "early", "offered", "queued", "sent", "failed", "dropped"}]
  /\ broker \in Seq(Msgs)

(* No message disappears: one that PublishC took is in the channel or in   *)
(* the loop's hand until the broker has it or its failure is logged.       *)
Held == {m \in Msgs : msg[m] = "queued"} = ToSet(pubC) \cup ({hand} \ {None})

(* The broker gets what was sent; what fails may still come late.          *)
SentArrives == \A m \in Msgs : /\ msg[m] = "sent" => m \in ToSet(broker)
                               /\ msg[m] \in {"new", "early", "offered", "dropped"}
                                    => m \notin ToSet(broker)

(* A message is dropped only by a call that began before Constructor, or   *)
(* when the channel is full; once the channel is made no later call drops  *)
(* one for any other reason.                                               *)
DroppedFull ==
  \A m \in Msgs : (msg[m] # "dropped" /\ msg'[m] = "dropped")
                     => msg[m] = "early" \/ (made /\ Len(pubC) = Cap)

(* Messages are not lost, and dropped only for the reasons that            *)
(* DroppedFull gives, whatever step is taken.                              *)
NothingSilent == Held' /\ SentArrives' /\ DroppedFull
=============================================================================
