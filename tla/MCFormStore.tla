---------------------------- MODULE MCFormStore ----------------------------
(* The two halves of the forms database share no row, so that a run          *)
(* explores one of them at a time.                                          *)
EXTENDS FormVersions, FormData, TLC

VARIABLE half

StoreInit == FormInit /\ DataInit /\ half \in {"definitions", "data"}

StoreNext == /\ UNCHANGED half
             /\ \/ half = "definitions" /\ FormNext /\ UNCHANGED dataVars
                \/ half = "data" /\ DataNext /\ UNCHANGED formVars

StoreSpec == StoreInit /\ [][StoreNext]_<<formVars, dataVars, half>>

\* Type invariant of the forms database.
StoreTypeOK == VersionsTypeOK /\ DataTypeOK

\* A form that was taken from another one, at its first draft.
OneCarried == {<<1, 1>>}

Symmetry == Permutations(Requests) \union Permutations(Instances) \union
            Permutations(Contents) \union Permutations(Calls)
=============================================================================
