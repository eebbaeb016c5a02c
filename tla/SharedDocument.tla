---------------------------- MODULE SharedDocument ----------------------------
(***************************************************************************)
(* What the users of a document are promised, without saying how the       *)
(* broker, the Kit and the storage keep the promise:                       *)
(*                                                                         *)
(*   - the document that is saved on the server's disk, and the one that   *)
(*     is uploaded from there, hold edits that were made, and never go     *)
(*     back to fewer of them;                                              *)
(*   - a document that somebody else has put into storage is overwritten   *)
(*     only if a user said so, or if the broker does not know which        *)
(*     version is stored;                                                  *)
(*   - it gives up that knowledge only by asking for the version, or by    *)
(*     renaming the document, and then being told nothing.                 *)
(*                                                                         *)
(* A content is the number of edits in it, as in module DocumentBroker.    *)
(***************************************************************************)
EXTENDS Integers

CONSTANT Theirs    \* the content of an edit that is not of these users

VARIABLES
    typed,    \* the edits that were accepted
    saved,    \* those in the document on the server's disk
    ours,     \* those in the document uploaded last
    held,     \* the document in storage
    known,    \* is the version in storage known: "yes", "asking" or "no"
    forced    \* a user wants the document in storage to be overwritten

vars == <<typed, saved, ours, held, known, forced>>

(* What becomes of the knowledge of the stored version in one step. *)
Knowledge == {"yes", "asking", "no"}
Follow == [yes |-> {"yes", "asking"}, asking |-> Knowledge, no |-> Knowledge]

Init ==
    /\ typed = 0 /\ saved = 0 /\ ours = 0 /\ held = 0
    /\ known = "no"
    /\ ~forced

Type ==
    /\ typed' = typed + 1
    /\ UNCHANGED <<saved, ours, held, known, forced>>

Save ==
    /\ saved' \in saved .. typed
    /\ UNCHANGED <<typed, ours, held, known, forced>>

Store ==
    /\ held = Theirs => forced \/ known = "no"
    /\ ours' \in ours .. saved
    /\ held' = ours'
    /\ UNCHANGED <<typed, saved, known, forced>>

SomebodyElseStores ==
    /\ held' = Theirs
    /\ UNCHANGED <<typed, saved, ours, known, forced>>

Force ==
    /\ forced'
    /\ UNCHANGED <<typed, saved, ours, held, known>>

(* The broker learns, doubts or forgets which version is stored, perhaps    *)
(* as it ends an upload that was forced.                                    *)
Track ==
    /\ known' \in Follow[known]
    /\ forced' \in {forced, FALSE}
    /\ UNCHANGED <<typed, saved, ours, held>>

Next == Type \/ Save \/ Store \/ SomebodyElseStores \/ Force \/ Track

Spec == Init /\ [][Next]_vars
=============================================================================
