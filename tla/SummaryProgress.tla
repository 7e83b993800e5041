--------------------------- MODULE SummaryProgress --------------------------
(***************************************************************************)
(* What summary publication promises about one conversation, without       *)
(* engines, snapshots or model calls (docs/store-backed-compaction-design  *)
(* .md, "Implemented path and invariants", items 2, 4 and 5).              *)
(*                                                                         *)
(* A publication is one atomic step of the current owner.  It adds one     *)
(* leaf over rows of that owner and may move the owner's progress, but     *)
(* only so far that every row it newly leaves behind is in some leaf.      *)
(***************************************************************************)
EXTENDS Naturals, Sequences

CONSTANTS Sessions, NoSession

VARIABLES
    arrived,    \* the session of each durable row, in store order
    owner,      \* the session that owns the conversation, or NoSession
    progress,   \* the rows of the owner up to here are not offered again
    summarised, \* <<session, row>> for every row in a leaf of the session
    leaves      \* the number of leaves published

vars == <<arrived, owner, progress, summarised, leaves>>

Init ==
    /\ arrived = <<>> /\ owner = NoSession /\ progress = 0
    /\ summarised = {} /\ leaves = 0

Arrive ==
    /\ \E s \in Sessions : arrived' = Append(arrived, s)
    /\ UNCHANGED <<owner, progress, summarised, leaves>>

(* A session takes the conversation over, with whatever checkpoint it is    *)
(* given, or takes it over from itself.                                     *)
Claim ==
    /\ owner' \in Sessions /\ owner' # owner
    /\ progress' \in Nat
    /\ UNCHANGED <<arrived, summarised, leaves>>

Release ==
    /\ owner' = NoSession /\ progress' = 0
    /\ UNCHANGED <<arrived, summarised, leaves>>

(* An operator rotates raw history out of the bootstrap.                    *)
Rotate ==
    /\ owner # NoSession /\ progress' > progress
    /\ UNCHANGED <<arrived, owner, summarised, leaves>>

Publish ==
    /\ owner # NoSession
    /\ leaves' = leaves + 1
    /\ progress' >= progress
    /\ summarised \subseteq summarised'
    /\ \A r \in summarised' \ summarised :
          r[1] = owner /\ r[2] \in DOMAIN arrived /\ arrived[r[2]] = owner
    /\ \A i \in DOMAIN arrived :
          (arrived[i] = owner /\ progress < i /\ i <= progress')
             => <<owner, i>> \in summarised'
    /\ UNCHANGED <<arrived, owner>>

Next == Arrive \/ Claim \/ Release \/ Rotate \/ Publish

Spec == Init /\ [][Next]_vars

=============================================================================
