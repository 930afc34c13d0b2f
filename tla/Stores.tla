------------------------------- MODULE Stores -------------------------------
(***************************************************************************)
(* The stores behind mdb.CacheStore: CCStore (ccache), FreeStore           *)
(* (freecache) and RedisStore, a redis hash per prefix of the keys, with   *)
(* its collector.  Clients call Get, Set, Del and DropPrefix at any time.  *)
(*                                                                         *)
(* Time is kept as what remains of each value.                             *)
(***************************************************************************)
EXTENDS Integers, FiniteSets

CONSTANTS
  Clients,  (* the goroutines                                              *)
  Keys,     (* the keys: [hash, field]; field "" is a key without a        *)
            (* separator                                                   *)
  Batch,    (* HDeleter deletes as many fields at once, 100 in the code    *)
  Hour,     (* the default of the two memory stores                        *)
  None      (* no value                                                    *)

(* The default lifetime is not negative, and None is no key.               *)
StoreConstants == Hour \in Nat /\ None \notin Keys

VARIABLES
  kind,     (* which store: "cc", "free" or "redis"                        *)
  val,      (* val[k]: None, or what remains of the value; Forever         *)
  getter,   (* getter[c]: the key that c's Get found expired, or None      *)
  dropper,  (* dropper[c]: what c's DropPrefix has still to delete         *)
  gc,       (* the collector, [pc, hash, left, doomed]                     *)
  raced     (* the keys written after somebody had found them expired      *)
            (* (history)                                                   *)

storeVars == <<kind, val, getter, dropper, gc, raced>>

Forever == Hour + 1
TTLs == {-1, 0, 1}   \* none given, not positive, a positive one

Hashes == {k.hash : k \in Keys}

NoGC == [pc |-> "idle", hash |-> None, left |-> {}, doomed |-> {}]

Init == /\ kind \in {"cc", "free", "redis"}
        /\ val = [k \in Keys |-> None]
        /\ getter = [c \in Clients |-> None]
        /\ dropper = [c \in Clients |-> {}]
        /\ gc = NoGC
        /\ raced = {}

Idle(c) == getter[c] = None /\ dropper[c] = {}

(* GetKeyFieldOrNot: RedisStore ignores keys without a separator.          *)
Named(k) == kind = "redis" => k.field # ""

(* How long a value lives.  No ttl is an hour in memory and for ever in    *)
(* redis; one that is not positive is for ever but in CCStore.             *)
Life(ttl) ==
  IF ttl > 0 THEN ttl
  ELSE IF kind = "cc" \/ (kind = "free" /\ ttl = -1) THEN Hour
  ELSE Forever

(* isExpired: strictly past; a mutant a moment early.                      *)
TooEarly(v) == v # None /\ v <= 0
Expired(v) == v # None /\ v < 0

(* Who has found k expired and not yet deleted it. *)
Condemned(k) == k \in gc.doomed \/ \E c \in Clients : getter[c] = k

Set(c, k, ttl) ==
  /\ Idle(c) /\ Named(k)
  /\ val' = [val EXCEPT ![k] = Life(ttl)]
  /\ raced' = IF Condemned(k) THEN raced \cup {k} ELSE raced \ {k}
  /\ UNCHANGED <<kind, getter, dropper, gc>>

(* What is not there (any more). *)
Without(gone) == [k \in Keys |-> IF k \in gone THEN None ELSE val[k]]

Del(c, k) ==
  /\ Idle(c) /\ Named(k)
  /\ val' = Without({k})
  /\ UNCHANGED <<kind, getter, dropper, gc, raced>>

(* Get: CCStore and RedisStore delete what they find expired, in a step of *)
(* its own; freecache does it inside.                                      *)
GetExpired(c, k) ==
  /\ Idle(c) /\ Named(k)
  /\ kind # "free"
  /\ Expired(val[k])
  /\ getter' = [getter EXCEPT ![c] = k]
  /\ UNCHANGED <<kind, val, dropper, gc, raced>>

GetDeletes(c) ==
  /\ getter[c] # None
  /\ val' = Without({getter[c]})
  /\ getter' = [getter EXCEPT ![c] = None]
  /\ UNCHANGED <<kind, dropper, gc, raced>>

(* The caches drop what does not fit, freecache what has expired too. *)
Evict(k) ==
  /\ kind # "redis"
  /\ val[k] # None
  /\ val' = Without({k})
  /\ UNCHANGED <<kind, getter, dropper, gc, raced>>

(* DropPrefix: at once in ccache, entry by entry in freecache, by ScanKeys *)
(* and a later Del of whole hashes in redis.                               *)
OfHash(h) == {k \in Keys : k.hash = h}
Present(h) == \E k \in OfHash(h) : val[k] # None

DropAtOnce(c, h) ==
  /\ Idle(c) /\ kind = "cc"
  /\ val' = Without(OfHash(h))
  /\ UNCHANGED <<kind, getter, dropper, gc, raced>>

DropBegins(c, h) ==
  /\ Idle(c) /\ kind # "cc" /\ Present(h)
  /\ dropper' = [dropper EXCEPT ![c] = OfHash(h)]
  /\ UNCHANGED <<kind, val, getter, gc, raced>>

DropDeletes(c) ==
  /\ dropper[c] # {}
  /\ \E gone \in (IF kind = "redis" THEN {dropper[c]} ELSE {{k} : k \in dropper[c]}) :
       /\ val' = Without(gone)
       /\ dropper' = [dropper EXCEPT ![c] = @ \ gone]
  /\ UNCHANGED <<kind, getter, gc, raced>>

ClearAll(c) ==
  /\ Idle(c)
  /\ val' = Without(Keys)
  /\ UNCHANGED <<kind, getter, dropper, gc, raced>>

-----------------------------------------------------------------------------
(* StoreGC and gc: HSCAN field by field; the expired ones are collected    *)
(* and deleted when they are Batch, the rest at the end.                   *)

GCStart(h) ==
  /\ kind = "redis" /\ gc.pc = "idle" /\ Present(h)
  /\ gc' = [pc |-> "scan", hash |-> h, doomed |-> {},
            left |-> {k \in OfHash(h) : val[k] # None}]
  /\ UNCHANGED <<kind, val, getter, dropper, raced>>

GCScan(k) ==
  LET doomed == gc.doomed \cup (IF Expired(val[k]) THEN {k} ELSE {}) IN
  /\ gc.pc = "scan" /\ k \in gc.left
  /\ gc' = [gc EXCEPT !.left = @ \ {k}, !.doomed = doomed,
                      !.pc = IF Cardinality(doomed) >= Batch THEN "delete" ELSE "scan"]
  /\ UNCHANGED <<kind, val, getter, dropper, raced>>

GCDelete ==
  /\ gc.pc = "delete" \/ (gc.pc = "scan" /\ gc.left = {})
  /\ val' = Without(gc.doomed)
  /\ gc' = IF gc.left = {} THEN NoGC ELSE [gc EXCEPT !.pc = "scan", !.doomed = {}]
  /\ UNCHANGED <<kind, getter, dropper, raced>>

Tick ==
  /\ val' = [k \in Keys |-> IF val[k] \in {None, Forever, -1} THEN val[k] ELSE val[k] - 1]
  /\ UNCHANGED <<kind, getter, dropper, gc, raced>>

Calls(c) == \/ \E k \in Keys : \/ \E ttl \in TTLs : Set(c, k, ttl)
                               \/ Del(c, k) \/ GetExpired(c, k)
            \/ \E h \in Hashes : DropAtOnce(c, h) \/ DropBegins(c, h)
            \/ GetDeletes(c) \/ DropDeletes(c) \/ ClearAll(c)

Collects == GCDelete \/ (\E h \in Hashes : GCStart(h)) \/ (\E k \in Keys : GCScan(k))

Next == (\E c \in Clients : Calls(c)) \/ Collects \/ (\E k \in Keys : Evict(k)) \/ Tick

Spec == Init /\ [][Next]_storeVars

-----------------------------------------------------------------------------
TypeOK ==
  /\ kind \in {"cc", "free", "redis"}
  /\ val \in [Keys -> -1..Forever \cup {None}]
  /\ getter \in [Clients -> Keys \cup {None}]
  /\ dropper \in [Clients -> SUBSET Keys]
  /\ gc.pc \in {"idle", "scan", "delete"} /\ gc.left \subseteq Keys /\ gc.doomed \subseteq Keys
  /\ raced \subseteq Keys

(* Nobody who cleans up takes a value that lives: a Get that found its key *)
(* expired, or the collector with its batches, deletes a live value only   *)
(* when that was written after they had looked.                            *)
OnlyRacedLost ==
  LET cleans == gc' # gc \/ \E c \in Clients : getter[c] # None /\ getter'[c] = None
  IN  cleans => \A k \in Keys : (val[k] # None /\ val[k] >= 0 /\ val'[k] = None) => k \in raced
=============================================================================
