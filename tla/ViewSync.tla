------------------------------ MODULE ViewSync ------------------------------
(***************************************************************************)
(* What the sidecar promises a view-syncer (drift.go, the comments on      *)
(* AdvanceResult, AdvanceStreamPartial and rpcCodeDrift): the rows it      *)
(* holds for its queries are those of ONE version of the replica at all    *)
(* times, they move to a later version in one step, and a failure of any   *)
(* kind costs it nothing but a resynchronisation.                          *)
(*                                                                         *)
(* The one exception the code names: "the sidecar dropped an advance       *)
(* during a reconnect".  From then on nothing is promised until the next   *)
(* resynchronisation.                                                      *)
(*                                                                         *)
(* AdvanceStream implements this specification.                            *)
(***************************************************************************)
EXTENDS Naturals, Sequences

CONSTANTS Query,      \* query ids
          Where       \* per query: the values its rows may have

VARIABLES
    hist,       \* the versions of the replica, each a set of rows
    held,       \* the queries the view-syncer has
    view,       \* per held query: the rows it has been told of
    at,         \* the version they belong to
    mode        \* "live", "lossy" (an advance was dropped) or "reset"

vars == <<hist, held, view, at, mode>>

Rows(version, q) == {r \in version : r.val \in Where[q]}
Views(v, S) == [q \in S |-> Rows(hist[v], q)]

Init ==
    /\ Len(hist) = 1
    /\ held = {}
    /\ view = Views(1, {})
    /\ at = 1
    /\ mode = "reset"

Commit ==
    /\ Len(hist') = Len(hist) + 1
    /\ SubSeq(hist', 1, Len(hist)) = hist
    /\ UNCHANGED <<held, view, at, mode>>

(* All queries move to a later version together.                           *)
Advance ==
    /\ mode = "live"
    /\ \E v \in at..Len(hist) : at' = v /\ view' = Views(v, held)
    /\ UNCHANGED <<hist, held, mode>>

AddQueries ==
    /\ mode = "live"
    /\ \E S \in SUBSET Query : held' = held \cup S
    /\ view' = Views(at, held')
    /\ UNCHANGED <<hist, at, mode>>

RemoveQuery ==
    /\ \E q \in held : held' = held \ {q}
    /\ view' = [q \in held' |-> view[q]]
    /\ UNCHANGED <<hist, at, mode>>

Fail ==
    /\ mode' = "reset"
    /\ UNCHANGED <<hist, held, view, at>>

Resync ==
    /\ mode = "reset"
    /\ \E v \in at..Len(hist) : at' = v /\ view' = Views(v, held)
    /\ mode' = "live"
    /\ UNCHANGED <<hist, held>>

DropAdvance ==
    /\ mode # "reset"
    /\ at' = Len(hist)
    /\ mode' = "lossy"
    /\ UNCHANGED <<hist, held, view>>

Unpromised ==
    /\ mode = "lossy" /\ mode' = "lossy"
    /\ at' \in at..Len(hist)
    /\ UNCHANGED hist

Next ==
    \/ Commit \/ Advance \/ AddQueries \/ RemoveQuery
    \/ Fail \/ Resync \/ DropAdvance \/ Unpromised

Spec == Init /\ [][Next]_vars
=============================================================================
