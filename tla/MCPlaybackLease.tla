--------------------------- MODULE MCPlaybackLease ---------------------------
(* Small instances of PlaybackLease.  One viewer id appears behind two     *)
(* addresses and two viewers share an address, so that each half of the    *)
(* ownership test matters.                                                 *)
EXTENDS PlaybackLease, TLC

CONSTANTS v1, v2, ip1, ip2

MCViewer == {v1, v2}
MCIp == {ip1, ip2}
MCDevice == {<<v1, ip1>>, <<v2, ip1>>}
MCDeviceDup == {<<v1, ip1>>, <<v1, ip2>>}
MCDevice3 == {<<v1, ip1>>, <<v2, ip1>>, <<v1, ip2>>}

\* Requests and session ids are interchangeable (used in safety runs only).
MCSymmetry == Permutations(Req) \union Permutations(Session)
=============================================================================
