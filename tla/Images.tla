------------------------------- MODULE Images -------------------------------
(***************************************************************************)
(* Pictures, from the request that uploads one to the texts that show it:  *)
(* Uploads and Usages.  What Usages calls an upload is a row that Uploads  *)
(* has committed; the two share nothing else, and a behaviour runs one of  *)
(* them.                                                                   *)
(***************************************************************************)
EXTENDS Uploads, FiniteSets

CONSTANTS
  Parts, \* the components that are run
  Used, Writer, Bodies, Works, Visits, MaxWrites, MaxWatched, MaxAged \* Usages

\* Texts show pictures; what is written while an article is served counts as well.
ASSUME UsagesBounds ==
  /\ IsFiniteSet(Used) /\ Bodies \subseteq SUBSET Used
  /\ MaxWrites \in Nat /\ MaxWatched \in 0..MaxWrites /\ MaxAged \in Nat

VARIABLES
  part, \* the component that is running
  uploads, held, stage, offer, flags, visit, reports, aged, silent, found, writes

uses == <<uploads, held, stage, offer, flags, visit, reports, aged, silent, found, writes>>

U == INSTANCE Usages WITH People <- Users, Pictures <- Used

ImagesInit == part \in Parts /\ Init /\ U!Init

RunUploads == part = "uploads" /\ Next /\ UNCHANGED uses
RunUsages == part = "usages" /\ U!Next /\ UNCHANGED vars

ImagesNext == (RunUploads \/ RunUsages) /\ UNCHANGED part

ImagesSpec == ImagesInit /\ [][ImagesNext]_<<part, vars, uses>> /\ Fairness

\* Usages: pictures that are shown are no orphans, and misdeclared ones are reported once.
UsagesHold == part = "usages" => U!TypeOK /\ U!UsagesHold
=============================================================================
