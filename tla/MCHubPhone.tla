------------------------------ MODULE MCHubPhone ------------------------------
(* Small instances of the server's hub, with a player that speaks and an      *)
(* observer that only listens, and of the phone's player.  The initial state  *)
(* chooses which one moves.                                                   *)
EXTENDS PlaybackSocketHub, PhonePlayer, FiniteSets, TLC

VARIABLE focus

PhoneFoci == {"two loads", "files", "admin", "sleep", "repeat"}
HubFoci == {"alone", "beside", "crowd"}

\* The two devices are interchangeable, and so are the hub's session ids.
MCSymmetry == Permutations(Device) \union Permutations(Session)

HubPhoneInit == HubInit /\ PhoneInit /\ focus \in PhoneFoci \union HubFoci

Made == {s \in Session : sess'[s] # None}

\* With two jobs in flight and others that pings and timers add, one player and
\* every session, or a player and an observer that stays and one session; with
\* both sockets and every session, one job in flight and one that a ping, a timer
\* or a close adds.
HubMoves ==
    /\ HubNext
    /\ focus = "alone" => \A c \in Conn \ Player : ~conn'[c].open
    /\ focus = "beside" => Cardinality(Made) <= 1
    /\ focus # "alone" => \A c \in Conn \ Player : conn[c].open => conn'[c].open
    /\ focus = "crowd" /\ wire # <<>> /\ Len(wire') > Len(wire) =>
          /\ Len(wire') = 2 /\ wire'[2].at \in {"pingSession", "timer", "arm"}

\* On a socket that stays once it is ready two loads meet, or one load and a
\* takeover, beside a rival that stays unless it is forced off, or one load and
\* a downloaded track, or tracks that are repeated; on any socket, one session
\* and the end of the sleep timer.
PhoneMoves ==
    /\ PhoneNext
    /\ focus # "two loads" => \A n \in Turn \ {1} : loadAudio'[n] = NoOne
    /\ focus \in {"two loads", "sleep", "repeat"} => watches' = 0
    /\ focus # "sleep" => (online => online')
    /\ focus = "sleep" => \A t \in Ticket \ {1} : clipOf'[t] = NoOne
    /\ focus \in {"two loads", "admin"} =>
          /\ (phone.media # NoOne => phone'.media # NoOne)
          /\ admin = NoOne /\ owner = Rival => owner' = Rival
    /\ focus # "admin" => admin' = NoOne
    /\ focus # "sleep" => ~phone'.asleep
    /\ focus # "repeat" => ~phone'.repeating
    /\ focus # "files" => phone'.media \notin Downloaded

HubPhoneNext ==
    /\ \/ focus \in HubFoci /\ HubMoves /\ UNCHANGED <<serverVars, wireVars, phoneVars>>
       \/ focus \in PhoneFoci /\ PhoneMoves /\ UNCHANGED hubVars
    /\ UNCHANGED focus

HubPhoneSpec ==
    HubPhoneInit /\ [][HubPhoneNext]_<<hubVars, serverVars, wireVars, phoneVars, focus>>
=============================================================================
