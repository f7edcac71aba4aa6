---------------------------- MODULE MCSourceCaches ---------------------------
(***************************************************************************)
(* The constraints keep the search to what the properties tell apart.      *)
(* Quiet: upset only grows, and the two properties about types say nothing *)
(* once it is not empty.  Apart: the server renderer and the types share   *)
(* nothing but the files, so a behaviour uses the one or the other.        *)
(***************************************************************************)
EXTENDS SourceCaches

CONSTANTS t1
MCCandidate == <<t1>>
Alike == Permutations(Preparer)

Painting == {"program", "analyze", "analyzed", "painted"}
Quiet == upset = {}
Apart ==
    \/ /\ \A k \in Component : programs[k] = None
       /\ \A p \in Preparer : job[p].stage \notin Painting
    \/ /\ \A k \in Component : mem[k] = None /\ disk[k] = None
       /\ \A f \in File : parsed[f] = None
       /\ \A p \in Preparer : job[p].stage \in Painting \cup {"idle"}
=============================================================================
