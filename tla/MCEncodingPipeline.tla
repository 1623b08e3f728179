-------------------------- MODULE MCEncodingPipeline --------------------------
(* Small instances of EncodingPipeline: how often the outside world acts. *)
EXTENDS EncodingPipeline

None == [k \in Kinds |-> 0]

\* Either no process stops, or nobody asks for a rendition while an
\* administrator retries and the worker stops, or the server stops while the
\* medium is replaced or deleted.
MCSettling ==
    {[None EXCEPT !["request"] = 2, !["retry"] = 1, !["force"] = 1, !["change"] = 1],
     [None EXCEPT !["retry"] = 1, !["force"] = 1, !["workerCrash"] = 2],
     [None EXCEPT !["change"] = 1, !["serverCrash"] = 1]}

\* Clients only, and one crash of the worker.
MCClients == {[None EXCEPT !["request"] = 2, !["workerCrash"] = 1]}
=============================================================================
