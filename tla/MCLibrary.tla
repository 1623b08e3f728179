------------------------------- MODULE MCLibrary -------------------------------
(* Safety of three parts that share nothing, on small instances: the queue   *)
(* of one address, the category tree, and the renditions of one medium.  The *)
(* initial state chooses which one moves.                                    *)
EXTENDS PlaybackQueue, Catalogue, EncodingPipeline

VARIABLE focus

libraryVars == <<queueVars, catalogueVars, vars, focus>>

AllBut(kinds) == [k \in Kinds |-> IF k \in kinds THEN 0 ELSE 1]

\* What can happen to the renditions from outside, each once, but for one kind
\* of retry, and with forced retries no crash of the server.
MCBudgets == {AllBut({"force"}), AllBut({"retry", "serverCrash"})}

MCSymmetry == Permutations(Media) \union Permutations(Req)

LibraryInit ==
    /\ QueueInit /\ CatalogueInit /\ Init
    /\ focus \in {"queue", "tree", "covers", "encoding"}
    /\ focus # "encoding" => budget["retry"] = 1 /\ \A q \in Quality : row[1][q] = "ready"

\* The tree is changed by one administrator at a time; with covers, two at a
\* time work on a single category.
CatalogueMoves ==
    \/ focus = "tree" /\ \E a \in TreeAdmin : Restructure(a)
    \/ focus = "covers" /\ CatalogueNext /\ made' <= 1

LibraryNext ==
    /\ \/ focus = "queue" /\ QueueNext /\ UNCHANGED <<catalogueVars, vars>>
       \/ CatalogueMoves /\ UNCHANGED <<queueVars, vars>>
       \/ focus = "encoding" /\ Next /\ UNCHANGED <<queueVars, catalogueVars>>
    /\ UNCHANGED focus

LibrarySpec == LibraryInit /\ [][LibraryNext]_libraryVars
=============================================================================
