------------------------------ MODULE MCDispatch ------------------------------
(***************************************************************************)
(* Instances of Dispatch for TLC.                                          *)
(***************************************************************************)
EXTENDS Dispatch, TLC

CONSTANTS m1, m2

\* One manifest is finalized with every parcel, the others are not there yet.
OneFullManifest == [m \in Manifest |-> IF m = m1 THEN Parcel ELSE {}]

\* Everything is still to be assembled.
NothingAssembled == [m \in Manifest |-> {}]

\* Parcels, trips and requests are interchangeable.
Interchangeable == Permutations(Parcel) \cup Permutations(Request)
                   \cup Permutations(Trip)
=============================================================================
