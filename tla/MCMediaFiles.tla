----------------------------- MODULE MCMediaFiles -----------------------------
(* Small instances of MediaFiles: how often the outside world acts. *)
EXTENDS MediaFiles

Once(kinds) == [k \in Kinds |-> IF k \in kinds THEN 1 ELSE 0]

\* Two of: the replacements by what they bring, a crash, a failing call and the
\* deletion of the medium, once with a crash and a sweep that came before it; and
\* two replacements of the file of which one fails.
MCBudgets ==
    {Once({"file", "crash"}), Once({"both", "crash"}), Once({"art", "crash"}),
     Once({"file", "art"}), Once({"both", "lyrics"}), Once({"art", "fault"}),
     Once({"file", "both", "fault"}), Once({"delete", "file"}),
     Once({"delete", "look", "crash"}), Once({"delete", "art"})}

\* Without failing calls: what the workers do to each other.
NoFaults == {b \in MCBudgets : b["fault"] = 0}
=============================================================================
