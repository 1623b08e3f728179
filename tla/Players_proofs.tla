---------------------------- MODULE Players_proofs ----------------------------
(***************************************************************************)
(* Proofs about the players of the one lease: WebPlayer, PhonePlayer and   *)
(* DesktopPlayer.                                                          *)
(*                                                                         *)
(* Of the server they need that the last of the news under way tells the   *)
(* truth about the rival, so that a player that has heard them all knows   *)
(* of it, and that a socket is bound to no session but the lease's.        *)
(* Of the page: the request of the effect is for what the page shows, and  *)
(* while one is pending there is no source.  Of the phone: a load that was *)
(* not superseded is of the track that is shown, and without a source      *)
(* nothing that was streamed is heard, but for what three strays leave     *)
(* playing.  Of the desktop: one task at most is not superseded, for which *)
(* it waits in silence, and what it could resume is what it shows.         *)
(***************************************************************************)
EXTENDS WebPlayer, PhonePlayer, DesktopPlayer, SequenceTheorems, TLAPS

-----------------------------------------------------------------------------
(* The server *)

Busy == [type |-> "state", state |-> "busy"]

\* The last of the news under way says what holds, as far as the rival goes.
NewsOk ==
    /\ ~online => news = <<>>
    /\ news # <<>> /\ owner = Rival => news[Len(news)] = Busy

ServerOk == ServerTypeOK /\ NewsOk

Entries == [bound : Ticket \union {NoOne}, revoked : Ticket \union {NoOne}]
Owners == Ticket \union {Rival, NoOne}

LEMMA GrownFacts ==
    ASSUME NEW s \in Seq(Message), NEW e \in Entries, NEW holder \in Owners
    PROVE  LET grown == Append(s, Stated(e, holder))
           IN /\ grown \in Seq(Message) /\ grown # <<>> /\ Len(grown) = Len(s) + 1
              /\ holder = Rival => grown[Len(grown)] = Busy
  <1>1. Stated(e, holder) \in Message /\ (holder = Rival => Stated(e, holder) = Busy)
    BY ServerAssumption DEF Stated, Message, Busy
  <1>2. /\ Append(s, Stated(e, holder)) \in Seq(Message)
        /\ Len(Append(s, Stated(e, holder))) = Len(s) + 1
        /\ Append(s, Stated(e, holder))[Len(s) + 1] = Stated(e, holder)
    BY <1>1, AppendProperties
  <1>3. Len(<<>>) = 0 /\ Len(s) \in Nat
    BY EmptySeq, LenProperties
  <1> QED
    BY <1>1, <1>2, <1>3

LEMMA TellFacts ==
    ASSUME ServerOk, NEW holder \in Owners, TellLease(holder)
    PROVE  /\ owner' = holder /\ entry' \in Entries /\ news' \in Seq(Message)
           /\ online' = online /\ NewsOk'
           /\ online => news' # <<>>
  <1> DEFINE loses == entry.bound # NoOne /\ entry.bound # holder
             next == IF loses THEN [bound |-> NoOne, revoked |-> entry.bound] ELSE entry
             lost == IF loses THEN <<[type |-> "lost", session |-> entry.bound]>> ELSE <<>>
  <1>1. owner' = holder /\ online' = online /\ next \in Entries
    BY DEF TellLease, ServerOk, ServerTypeOK, Entries
  <1>2. CASE ~online
    BY <1>1, <1>2 DEF TellLease, ServerOk, ServerTypeOK, NewsOk, Entries
  <1>3. CASE online
    <2> HIDE DEF next, lost
    <2>1. entry' = next /\ news' = news \o lost \o <<Stated(next, holder)>>
      BY <1>3 DEF TellLease, next, lost
    <2>2. news \o lost \in Seq(Message)
      <3>1. lost \in Seq(Message)
        <4>1. CASE loses
          <5>1. [type |-> "lost", session |-> entry.bound] \in Message
            BY <4>1 DEF Message, ServerOk, ServerTypeOK
          <5> QED
            BY <4>1, <5>1 DEF lost
        <4> QED
          BY <4>1, EmptySeq DEF lost
      <3> QED
        BY <3>1, ConcatProperties DEF ServerOk, ServerTypeOK
    <2>3. Stated(next, holder) \in Message
      BY <1>1 DEF Stated, Message
    <2>4. news' = Append(news \o lost, Stated(next, holder))
      BY <2>1, <2>2, <2>3, AppendIsConcat
    <2> QED
      BY <1>1, <1>3, <2>1, <2>2, <2>4, GrownFacts DEF NewsOk
  <1> QED
    BY <1>2, <1>3

LEMMA AcquireKeeps ==
    ASSUME ServerOk, NEW t \in Ticket, NEW m \in Clip, Acquire(t, m)
    PROVE  /\ ServerOk' /\ owner' = t /\ online' = online
           /\ clipOf' \in [Ticket -> Clip \union {NoOne}] /\ clipOf'[t] = m
           /\ clipOf[t] = NoOne /\ \A u \in Ticket \ {t} : clipOf'[u] = clipOf[u]
  <1>1. t \in Owners /\ TellLease(t)
    BY DEF Acquire, Owners
  <1> QED
    BY <1>1, TellFacts DEF ServerOk, ServerTypeOK, Acquire, Entries, Owners

\* What leaves the lease with the rival leaves everything as it is.
LEMMA ReleaseKeeps ==
    ASSUME ServerOk, NEW t \in Ticket \union {NoOne}, Release(t)
    PROVE  ServerOk' /\ clipOf' = clipOf /\ (owner' = Rival => UNCHANGED <<owner, wireVars>>)
  <1>1. CASE TellLease(NoOne)
    BY <1>1, TellFacts, ServerAssumption DEF ServerOk, ServerTypeOK, Release, Entries, Owners
  <1>2. CASE UNCHANGED <<owner, wireVars>>
    BY <1>2 DEF ServerOk, ServerTypeOK, NewsOk, Release, wireVars
  <1> QED
    BY <1>1, <1>2 DEF Release

LEMMA ForceKeeps ==
    ASSUME ServerOk, ForceRelease
    PROVE  ServerOk' /\ clipOf' = clipOf /\ owner' # Rival
  <1>1. CASE TellLease(NoOne)
    BY <1>1, TellFacts, ServerAssumption DEF ServerOk, ServerTypeOK, ForceRelease, Entries, Owners
  <1>2. CASE owner = NoOne /\ UNCHANGED <<owner, wireVars>>
    BY <1>2, ServerAssumption DEF ServerOk, ServerTypeOK, NewsOk, ForceRelease, wireVars
  <1> QED
    BY <1>1, <1>2 DEF ForceRelease

LEMMA WorldKeeps ==
    ASSUME ServerOk, LeaseEnds \/ RivalTakes
    PROVE  /\ ServerOk' /\ clipOf' = clipOf /\ valid' = valid /\ online' = online
           /\ online => news' # <<>>
  <1>1. PICK holder \in Owners : TellLease(holder)
    BY DEF LeaseEnds, RivalTakes, Owners
  <1> QED
    BY <1>1, TellFacts DEF ServerOk, ServerTypeOK, LeaseEnds, RivalTakes, Entries, Owners

LEMMA BoundKeeps ==
    ASSUME ServerOk, NEW t \in Ticket \union {NoOne}, BoundTo(t), UNCHANGED <<serverVars, online>>
    PROVE  ServerOk' /\ (online => news' # <<>>)
  <1>1. CASE ~online
    BY <1>1 DEF BoundTo, ServerOk, ServerTypeOK, NewsOk, serverVars
  <1>2. CASE online
    <2> DEFINE e == Rebound(entry, t)
    <2>1. e \in Entries
      BY DEF Rebound, Entries, ServerOk, ServerTypeOK
    <2>2. entry' = e /\ news' = Append(news, Stated(e, owner))
      BY <1>2 DEF BoundTo
    <2> HIDE DEF e
    <2> QED
      BY <1>2, <2>1, <2>2, GrownFacts DEF ServerOk, ServerTypeOK, NewsOk, serverVars, Entries, Owners
  <1> QED
    BY <1>1, <1>2

LEMMA ReadyKeeps ==
    ASSUME ServerOk, NEW t \in Ticket \union {NoOne}, UNCHANGED serverVars, online' = TRUE,
           entry' = Rebound(Unbound, t),
           news' = <<Stated(Unbound, owner)>> \o (IF t = NoOne THEN <<>> ELSE <<Stated(entry', owner)>>)
    PROVE  ServerOk' /\ news' # <<>>
  <1>1. Unbound \in Entries /\ Rebound(Unbound, t) \in Entries /\ <<>> \in Seq(Message)
    BY EmptySeq DEF Unbound, Rebound, Entries
  <1> DEFINE first == Append(<<>>, Stated(Unbound, owner))
  <1>2. first \in Seq(Message) /\ first = <<Stated(Unbound, owner)>>
    BY <1>1, GrownFacts DEF ServerOk, ServerTypeOK, Owners
  <1>3. CASE t = NoOne
    <2>1. entry' = Unbound
      BY <1>3 DEF Rebound, Unbound
    <2>2. news' = first
      BY <1>2, <1>3, ConcatEmptySeq
    <2> QED
      BY <1>1, <2>1, <2>2, GrownFacts DEF ServerOk, ServerTypeOK, NewsOk, serverVars, Entries, Owners
  <1>4. CASE t # NoOne
    <2>1. Stated(entry', owner) \in Message
      BY <1>1 DEF Stated, Message
    <2>2. news' = Append(first, Stated(entry', owner))
      BY <1>2, <1>4, <2>1, AppendIsConcat
    <2> QED
      BY <1>1, <1>2, <2>2, GrownFacts DEF ServerOk, ServerTypeOK, NewsOk, serverVars, Entries, Owners
  <1> QED
    BY <1>3, <1>4

LEMMA CloseKeeps ==
    ASSUME ServerOk, UNCHANGED serverVars, online' = FALSE, entry' = Unbound, news' = <<>>
    PROVE  ServerOk'
  BY EmptySeq DEF ServerOk, ServerTypeOK, NewsOk, serverVars, Unbound

\* News arrive: once the last has, nothing can have been said but the truth.
LEMMA ArriveKeeps ==
    ASSUME ServerOk, news # <<>>, news' = Tail(news), UNCHANGED <<serverVars, entry, online>>
    PROVE  /\ ServerOk' /\ Head(news) \in Message
           /\ news' = <<>> /\ owner = Rival => Head(news) = Busy
  <1>1. news \in Seq(Message) /\ Len(news) \in Nat /\ Len(news) # 0
    BY EmptySeq, LenProperties DEF ServerOk, ServerTypeOK
  <1>2. /\ Tail(news) \in Seq(Message) /\ Len(Tail(news)) = Len(news) - 1
        /\ \A i \in 1..Len(Tail(news)) : Tail(news)[i] = news[i + 1]
        /\ Head(news) = news[1] /\ Head(news) \in Message
    BY <1>1, HeadTailProperties
  <1>3. news' = <<>> => Len(news) = 1
    <2>1. Tail(news) = <<>> => Len(Tail(news)) = 0
      BY <1>2, EmptySeq
    <2> QED
      BY <1>1, <1>2, <2>1
  <1>4. news' # <<>> => Len(news') \in 1..Len(news') /\ news'[Len(news')] = news[Len(news)]
    BY <1>1, <1>2, EmptySeq, LenProperties
  <1> QED
    BY <1>1, <1>2, <1>3, <1>4 DEF ServerOk, ServerTypeOK, NewsOk, serverVars

-----------------------------------------------------------------------------
(* The web page *)

PageOk ==
    /\ page \in Page /\ (page.source = NoOne) = (page.element = "empty")
    /\ page.source # NoOne =>
          page.media # NoOne /\ clipOf[page.source] = page.media /\ ~page.observing
    /\ page.pending => page.source = NoOne

\* The request of the effect is for what the page shows.
EffectOk ==
    /\ effect \in Ask \union {NoOne}
    /\ effect # NoOne =>
          /\ effect.media = page.media /\ ~page.observing
          /\ effect.at \in {"made", "prepare"} =>
                effect.session # NoOne /\ clipOf[effect.session] = effect.media

OthersOk ==
    /\ resume \in Ask \union {NoOne}
    /\ ghost \in Clip \union {NoOne} /\ force \in {"none", "sent", "done"}
    /\ watch \in Clip \union {NoOne}

WebIInv == ServerOk /\ PageOk /\ EffectOk /\ OthersOk /\ LoserStreamsNothing

\* A page that may stand for the one before it with the same medium and mode.
Fits(p) ==
    /\ p \in Page
    /\ p.media = page.media /\ p.observing = page.observing =>
          /\ (p.source = NoOne) = (p.element = "empty")
          /\ p.source \in {page.source, NoOne}
          /\ p.pending => p.source = NoOne

LEMMA GhostFacts ==
    ASSUME OthersOk, NEW request \in Ask \union {NoOne}
    PROVE  Ghost(request) \in Clip \union {NoOne}
  BY DEF Ghost, OthersOk, Ask

LEMMA CommitKeeps ==
    ASSUME PageOk, EffectOk, OthersOk, UNCHANGED clipOf, NEW p, Fits(p), Commit(p)
    PROVE  /\ PageOk' /\ EffectOk' /\ ghost' \in Clip \union {NoOne}
           /\ page'.source \in {p.source, NoOne} /\ page'.source \in {page.source, NoOne}
  <1>1. CASE p.media = page.media /\ p.observing = page.observing
    BY <1>1 DEF Commit, Fits, PageOk, EffectOk, OthersOk, Page
  <1>2. CASE ~(p.media = page.media /\ p.observing = page.observing)
    <2>1. page' = Emptied(p) /\ ghost' = Ghost(effect)
      BY <1>2 DEF Commit
    <2>2. /\ page' \in Page /\ page'.source = NoOne /\ page'.element = "empty"
          /\ page'.media = p.media /\ page'.observing = p.observing
      BY <2>1 DEF Emptied, Fits, Page, Element
    <2>3. PageOk'
      BY <2>2 DEF PageOk
    <2>4. EffectOk'
      <3>1. CASE p.media = NoOne \/ p.observing
        BY <1>2, <3>1 DEF Commit, EffectOk
      <3>2. CASE ~(p.media = NoOne \/ p.observing)
        BY <1>2, <2>2, <3>2 DEF Commit, EffectOk, Ask, Fits, Page
      <3> QED
        BY <3>1, <3>2
    <2>5. ghost' \in Clip \union {NoOne}
      BY <2>1, GhostFacts DEF EffectOk
    <2> QED
      BY <2>2, <2>3, <2>4, <2>5
  <1> QED
    BY <1>1, <1>2

\* What a commit does not touch, and the loser's silence.
LEMMA CommitIsSafe ==
    ASSUME WebIInv, NEW p, Fits(p), Commit(p), ServerOk', UNCHANGED clipOf,
           resume' \in Ask \union {NoOne}, force' \in {"none", "sent", "done"},
           watch' \in Clip \union {NoOne},
           online' /\ news' = <<>> /\ owner' = Rival =>
              (online /\ news = <<>> /\ owner = Rival) \/ p.source = NoOne
    PROVE  WebIInv'
  <1>1. /\ PageOk' /\ EffectOk' /\ ghost' \in Clip \union {NoOne}
        /\ page'.source \in {p.source, NoOne} /\ page'.source \in {page.source, NoOne}
    BY CommitKeeps DEF WebIInv
  <1> QED
    BY <1>1 DEF WebIInv, OthersOk, LoserStreamsNothing

LEMMA LostFits ==
    ASSUME PageOk, NEW conflict \in BOOLEAN
    PROVE  /\ Fits(Lost(page, conflict)) /\ Lost(page, conflict).source = NoOne
           /\ Lost(page, conflict) \in Page
           /\ Fits([Lost(page, TRUE) EXCEPT !.service = NoOne])
           /\ [Lost(page, TRUE) EXCEPT !.service = NoOne].source = NoOne
  BY DEF PageOk, Page, Element, Fits, Lost, Emptied

\* A step of the page alone.
LEMMA PageStep ==
    ASSUME WebIInv, UNCHANGED <<serverVars, wireVars>>, PageOk', EffectOk', OthersOk',
           page'.source \in {page.source, NoOne}
    PROVE  WebIInv'
  <1>1. ServerOk'
    BY DEF WebIInv, ServerOk, ServerTypeOK, NewsOk, serverVars, wireVars
  <1> QED
    BY <1>1 DEF WebIInv, LoserStreamsNothing, serverVars, wireVars

LEMMA ServeEffectKeeps == WebIInv /\ ServeEffect => WebIInv'
  <1> SUFFICES ASSUME WebIInv, ServeEffect PROVE WebIInv'
    OBVIOUS
  <1>1. effect \in Ask /\ effect.media \in Clip
    BY DEF WebIInv, EffectOk, ServeEffect, Ask
  <1>2. ASSUME NEW t \in Ticket, Acquire(t, effect.media),
               effect' = [effect EXCEPT !.at = "made", !.session = t]
        PROVE  WebIInv'
    <2>1. /\ ServerOk' /\ owner' = t /\ clipOf'[t] = effect.media
          /\ clipOf[t] = NoOne /\ \A u \in Ticket \ {t} : clipOf'[u] = clipOf[u]
      BY <1>1, <1>2, AcquireKeeps DEF WebIInv
    <2>2. PageOk'
      BY <2>1, ServerAssumption DEF WebIInv, PageOk, Page, ServeEffect
    <2>3. EffectOk'
      BY <1>1, <1>2, <2>1, ServerAssumption DEF WebIInv, EffectOk, Ask, ServeEffect
    <2>4. owner' # Rival
      BY <2>1, ServerAssumption
    <2> QED
      BY <2>1, <2>2, <2>3, <2>4 DEF WebIInv, OthersOk, LoserStreamsNothing, ServeEffect
  <1>3. ASSUME effect' = [effect EXCEPT !.at = "refused"], UNCHANGED <<serverVars, wireVars>>
        PROVE  WebIInv'
    <2>1. EffectOk'
      BY <1>1, <1>3 DEF WebIInv, EffectOk, Ask, ServeEffect, serverVars
    <2>2. PageOk' /\ OthersOk'
      BY <1>1, <1>3 DEF WebIInv, PageOk, OthersOk, Ask, ServeEffect, serverVars
    <2> QED
      BY <1>3, <2>1, <2>2, PageStep DEF ServeEffect
  <1> QED
    BY <1>2, <1>3 DEF ServeEffect

\* A session for another request than that of the effect.
LEMMA AcquireIsSafe ==
    ASSUME WebIInv, NEW t \in Ticket, NEW m \in Clip, Acquire(t, m), UNCHANGED <<effect, page>>, OthersOk'
    PROVE  WebIInv'
  <1>1. /\ ServerOk' /\ owner' = t
        /\ clipOf[t] = NoOne /\ \A u \in Ticket \ {t} : clipOf'[u] = clipOf[u]
    BY AcquireKeeps DEF WebIInv
  <1>2. PageOk'
    BY <1>1, ServerAssumption DEF WebIInv, PageOk, Page
  <1>3. EffectOk'
    BY <1>1, ServerAssumption DEF WebIInv, EffectOk, Ask
  <1>4. owner' # Rival
    BY <1>1, ServerAssumption
  <1> QED
    BY <1>1, <1>2, <1>3, <1>4 DEF WebIInv, LoserStreamsNothing

LEMMA ServeResumeKeeps == WebIInv /\ ServeResume => WebIInv'
  <1> SUFFICES ASSUME WebIInv, ServeResume PROVE WebIInv'
    OBVIOUS
  <1>1. resume \in Ask /\ resume.media \in Clip
    BY DEF WebIInv, OthersOk, ServeResume, Ask
  <1>2. ASSUME NEW t \in Ticket, Acquire(t, resume.media),
               resume' = [resume EXCEPT !.at = "made", !.session = t]
        PROVE  WebIInv'
    <2>1. OthersOk'
      BY <1>1, <1>2 DEF WebIInv, OthersOk, Ask, ServeResume
    <2> QED
      BY <1>1, <1>2, <2>1, AcquireIsSafe DEF ServeResume
  <1>3. ASSUME resume' = [resume EXCEPT !.at = "refused"], UNCHANGED <<serverVars, wireVars>>
        PROVE  WebIInv'
    <2>1. EffectOk'
      BY <1>1, <1>3 DEF WebIInv, EffectOk, Ask, ServeResume, serverVars
    <2>2. PageOk' /\ OthersOk'
      BY <1>1, <1>3 DEF WebIInv, PageOk, OthersOk, Ask, ServeResume, serverVars
    <2> QED
      BY <1>3, <2>1, <2>2, PageStep DEF ServeResume
  <1> QED
    BY <1>2, <1>3 DEF ServeResume

LEMMA ServeGhostKeeps == WebIInv /\ ServeGhost => WebIInv'
  <1> SUFFICES ASSUME WebIInv, ServeGhost PROVE WebIInv'
    OBVIOUS
  <1>1. ghost \in Clip /\ OthersOk'
    BY DEF WebIInv, OthersOk, ServeGhost
  <1>2. ASSUME NEW t \in Ticket, Acquire(t, ghost) PROVE WebIInv'
    BY <1>1, <1>2, AcquireIsSafe DEF ServeGhost
  <1>3. ASSUME UNCHANGED <<serverVars, wireVars>> PROVE WebIInv'
    BY <1>1, <1>3 DEF WebIInv, PageOk, EffectOk, LoserStreamsNothing, ServeGhost,
       ServerOk, ServerTypeOK, NewsOk, serverVars, wireVars
  <1> QED
    BY <1>2, <1>3 DEF ServeGhost

LEMMA ServeForceKeeps == WebIInv /\ ServeForce => WebIInv'
  <1> SUFFICES ASSUME WebIInv, ServeForce PROVE WebIInv'
    OBVIOUS
  <1>1. ServerOk' /\ clipOf' = clipOf /\ owner' # Rival
    BY ForceKeeps DEF WebIInv, ServeForce
  <1> QED
    BY <1>1 DEF WebIInv, PageOk, EffectOk, OthersOk, LoserStreamsNothing, ServeForce

LEMMA WorldIsSafe ==
    WebIInv /\ (LeaseEnds \/ RivalTakes) /\ UNCHANGED <<requestVars, page>> => WebIInv'
  <1> SUFFICES ASSUME WebIInv, LeaseEnds \/ RivalTakes, UNCHANGED <<requestVars, page>>
               PROVE  WebIInv'
    OBVIOUS
  <1>1. ServerOk' /\ clipOf' = clipOf /\ online' = online /\ (online => news' # <<>>)
    BY WorldKeeps DEF WebIInv
  <1> QED
    BY <1>1 DEF WebIInv, PageOk, EffectOk, OthersOk, LoserStreamsNothing, requestVars

-----------------------------------------------------------------------------
(* The user *)

LEMMA PlayMediaKeeps == ASSUME NEW m \in Clip PROVE WebIInv /\ PlayMedia(m) => WebIInv'
  <1> SUFFICES ASSUME WebIInv, PlayMedia(m) PROVE WebIInv'
    OBVIOUS
  <1> DEFINE again == m = page.media
             p == [page EXCEPT !.media = m, !.observing = FALSE, !.paused = FALSE]
             q == [p EXCEPT !.stale = @ /\ ~again]
  <1>1. ServerOk' /\ clipOf' = clipOf /\ UNCHANGED <<serverVars, wireVars, force, watch>>
    BY DEF PlayMedia, WebIInv, ServerOk, ServerTypeOK, NewsOk, serverVars, wireVars
  <1>2. Resuming(m) \in Ask
    BY DEF Resuming, Ask
  <1>3. CASE again /\ ~page.observing
    <2>1. Fresh(p) /\ UNCHANGED effect /\ p.media = m
      BY <1>3 DEF PlayMedia, WebIInv, PageOk, Page
    <2>2. /\ page' \in Page /\ (page'.source = NoOne) = (page'.element = "empty")
          /\ page'.source = page.source /\ page'.media = page.media
          /\ page'.observing = page.observing /\ page'.pending = page.pending
      <3>1. /\ page \in Page /\ (page.source = NoOne) = (page.element = "empty")
            /\ p \in Page /\ p.source = page.source /\ p.element = page.element
            /\ p.media = page.media /\ p.observing = page.observing /\ p.pending = page.pending
        BY <1>3 DEF WebIInv, PageOk, Page
      <3> HIDE DEF p
      <3>2. CASE page' = [p EXCEPT !.stale = FALSE] \/ page' = p
        <4>1. /\ page' \in Page /\ page'.source = p.source /\ page'.element = p.element
              /\ page'.media = p.media /\ page'.observing = p.observing
              /\ page'.pending = p.pending
          BY <3>1, <3>2 DEF Page
        <4> QED
          BY <3>1, <4>1
      <3>3. CASE page' = [p EXCEPT !.element = "playing", !.paused = FALSE] /\ p.source # NoOne
        BY <3>1, <3>3 DEF Page, Element
      <3> QED
        BY <2>1, <3>2, <3>3 DEF Fresh
    <2>3. resume' \in Ask \union {NoOne} /\ ghost' \in Clip \union {NoOne}
      BY <1>2, <2>1, GhostFacts DEF Fresh, WebIInv, OthersOk
    <2> QED
      BY <1>1, <2>1, <2>2, <2>3 DEF WebIInv, PageOk, EffectOk, OthersOk, LoserStreamsNothing, wireVars, serverVars
  <1>4. CASE ~(again /\ ~page.observing)
    <2>1. Commit(q) /\ resume' \in Ask \union {NoOne}
      BY <1>2, <1>4 DEF PlayMedia, WebIInv, OthersOk
    <2>2. Fits(q)
      BY <1>4 DEF Fits, WebIInv, PageOk, Page, Element
    <2> QED
      BY <1>1, <2>1, <2>2, CommitIsSafe DEF WebIInv, OthersOk, wireVars, serverVars
  <1> QED
    BY <1>3, <1>4

\* Steps that keep the medium and the mode of the page.
LEMMA SameKeeps ==
    ASSUME WebIInv, UNCHANGED <<serverVars, wireVars, effect>>, OthersOk',
           page' \in Page, (page'.source = NoOne) = (page'.element = "empty"),
           page'.source = page.source, page'.media = page.media, page'.observing = page.observing,
           page'.pending => page.pending \/ page.source = NoOne
    PROVE  WebIInv'
  <1>1. PageOk' /\ EffectOk'
    BY DEF WebIInv, PageOk, EffectOk, serverVars
  <1> QED
    BY <1>1, PageStep

LEMMA FreshFacts ==
    ASSUME WebIInv, NEW p, Fresh(p), p \in Page, (p.source = NoOne) = (p.element = "empty"), p.media \in Clip
    PROVE  /\ page' \in Page /\ (page'.source = NoOne) = (page'.element = "empty")
           /\ page'.source = p.source /\ page'.media = p.media /\ page'.observing = p.observing
           /\ page'.pending = p.pending
           /\ resume' \in Ask \union {NoOne} /\ ghost' \in Clip \union {NoOne}
  <1>1. Resuming(p.media) \in Ask
    BY DEF Resuming, Ask
  <1>2. Ghost(resume) \in Clip \union {NoOne}
    BY GhostFacts DEF WebIInv, OthersOk
  <1>3. resume' \in Ask \union {NoOne} /\ ghost' \in Clip \union {NoOne}
    BY <1>1, <1>2 DEF Fresh, WebIInv, OthersOk
  <1>4. /\ page' \in Page /\ (page'.source = NoOne) = (page'.element = "empty")
        /\ page'.source = p.source /\ page'.media = p.media /\ page'.observing = p.observing
        /\ page'.pending = p.pending
    <2>1. CASE p.stale
      <3>1. page' = [p EXCEPT !.stale = FALSE]
        BY <2>1 DEF Fresh
      <3> QED
        BY <3>1 DEF Page
    <2>2. CASE ~p.stale /\ p.source = NoOne
      <3>1. page' = p
        BY <2>2 DEF Fresh
      <3> QED
        BY <3>1
    <2>3. CASE ~p.stale /\ p.source # NoOne
      <3>1. page' = [p EXCEPT !.element = "playing", !.paused = FALSE]
        BY <2>3 DEF Fresh
      <3> QED
        BY <2>3, <3>1 DEF Page, Element
    <2> QED
      BY <2>1, <2>2, <2>3
  <1> QED
    BY <1>3, <1>4

LEMMA PlayMediaByIdKeeps == WebIInv /\ PlayMediaById => WebIInv'
  <1> SUFFICES ASSUME WebIInv, PlayMediaById PROVE WebIInv'
    OBVIOUS
  <1> DEFINE p == [page EXCEPT !.paused = FALSE]
  <1>1. /\ p \in Page /\ (p.source = NoOne) = (p.element = "empty") /\ p.media \in Clip
        /\ p.source = page.source /\ p.media = page.media /\ p.observing = page.observing
        /\ p.pending = page.pending /\ Fresh(p)
    BY DEF WebIInv, PageOk, Page, PlayMediaById
  <1> HIDE DEF p
  <1>2. OthersOk'
    BY <1>1, FreshFacts DEF WebIInv, OthersOk, PlayMediaById
  <1> QED
    BY <1>1, <1>2, FreshFacts, SameKeeps DEF PlayMediaById

LEMMA ToggleKeeps == WebIInv /\ Toggle => WebIInv'
  <1> SUFFICES ASSUME WebIInv, Toggle PROVE WebIInv'
    OBVIOUS
  <1>1. page \in Page /\ (page.source = NoOne) = (page.element = "empty") /\ page.media \in Clip
    BY DEF WebIInv, PageOk, Page, Toggle
  <1>2. CASE page.element = "playing"
    <2> DEFINE p == [page EXCEPT !.element = "paused", !.paused = TRUE]
    <2>1. p \in Page /\ page' = Rested(p, online) /\ UNCHANGED <<resume, ghost>>
      BY <1>1, <1>2 DEF Toggle, Page, Element
    <2>2. /\ page' \in Page /\ page'.element = "paused" /\ page'.source = page.source
          /\ page'.media = page.media /\ page'.observing = page.observing
          /\ page'.pending = page.pending
      <3>1. /\ p.element = "paused" /\ p.source = page.source /\ p.media = page.media
            /\ p.observing = page.observing /\ p.pending = page.pending
        BY <1>1 DEF Page
      <3>2. online \in BOOLEAN
        BY DEF WebIInv, ServerOk, ServerTypeOK
      <3> HIDE DEF p
      <3> QED
        BY <2>1, <3>1, <3>2 DEF Rested, Page
    <2>3. OthersOk'
      BY <2>1 DEF WebIInv, OthersOk, Toggle
    <2> QED
      BY <1>1, <1>2, <2>2, <2>3, SameKeeps DEF Toggle
  <1>3. CASE page.element # "playing"
    <2>1. Fresh(page)
      BY <1>3 DEF Toggle
    <2>2. OthersOk'
      BY <1>1, <2>1, FreshFacts DEF WebIInv, OthersOk, Toggle
    <2> QED
      BY <1>1, <2>1, <2>2, FreshFacts, SameKeeps DEF Toggle
  <1> QED
    BY <1>2, <1>3

LEMMA LoadedKeeps == WebIInv /\ Loaded => WebIInv'
  <1> SUFFICES ASSUME WebIInv, Loaded PROVE WebIInv'
    OBVIOUS
  <1>1. OthersOk' /\ UNCHANGED effect
    BY DEF WebIInv, OthersOk, Loaded, requestVars
  <1>2. /\ page' \in Page /\ page'.element # "empty" /\ page'.source = page.source
        /\ page'.media = page.media /\ page'.observing = page.observing /\ page'.pending = page.pending
    BY DEF WebIInv, PageOk, Page, Element, Loaded
  <1> QED
    BY <1>1, <1>2, SameKeeps DEF Loaded, WebIInv, PageOk

LEMMA StopKeeps == WebIInv /\ Stop => WebIInv'
  <1> SUFFICES ASSUME WebIInv, Stop PROVE WebIInv'
    OBVIOUS
  <1> DEFINE p == [page EXCEPT !.media = NoOne, !.observing = FALSE, !.session = NoOne,
                               !.paused = TRUE]
  <1>1. Commit(p) /\ Release(page.session)
    BY DEF Stop
  <1>2. Fits(p) /\ page.session \in Ticket \union {NoOne}
    BY DEF WebIInv, PageOk, Page, Fits, Stop
  <1>3. ServerOk' /\ clipOf' = clipOf /\ (owner' = Rival => UNCHANGED <<owner, wireVars>>)
    BY <1>1, <1>2, ReleaseKeeps DEF WebIInv
  <1> HIDE DEF p
  <1>4. online' /\ news' = <<>> /\ owner' = Rival => online /\ news = <<>> /\ owner = Rival
    BY <1>3 DEF wireVars
  <1> QED
    BY <1>1, <1>2, <1>3, <1>4, CommitIsSafe DEF WebIInv, OthersOk, Stop

LEMMA TakeOverKeeps == WebIInv /\ (TakeOverBegin \/ TakeOverFails) => WebIInv'
  <1> SUFFICES ASSUME WebIInv, TakeOverBegin \/ TakeOverFails PROVE WebIInv'
    OBVIOUS
  <1>1. OthersOk' /\ UNCHANGED <<serverVars, wireVars, effect>>
    BY DEF WebIInv, OthersOk, TakeOverBegin, TakeOverFails
  <1>2. /\ page' \in Page /\ page'.source = page.source /\ page'.element = page.element
        /\ page'.media = page.media /\ page'.observing = page.observing
        /\ page'.pending => page.source = NoOne
    BY DEF WebIInv, PageOk, Page, TakeOverBegin, TakeOverFails
  <1> QED
    BY <1>1, <1>2, SameKeeps DEF WebIInv, PageOk

LEMMA TakeOverDoneKeeps == WebIInv /\ TakeOverDone => WebIInv'
  <1> SUFFICES ASSUME WebIInv, TakeOverDone PROVE WebIInv'
    OBVIOUS
  <1> DEFINE p == [page EXCEPT !.observing = FALSE, !.paused = TRUE]
  <1>1. Commit(p) /\ Fits(p)
    BY DEF TakeOverDone, WebIInv, PageOk, Page, Fits
  <1> HIDE DEF p
  <1>2. ServerOk'
    BY DEF WebIInv, ServerOk, ServerTypeOK, NewsOk, serverVars, wireVars, TakeOverDone
  <1> QED
    BY <1>1, <1>2, CommitIsSafe DEF WebIInv, OthersOk, TakeOverDone, serverVars, wireVars

-----------------------------------------------------------------------------
(* Answers *)

LEMMA EffectPreparesKeeps == WebIInv /\ EffectPrepares => WebIInv'
  <1> SUFFICES ASSUME WebIInv, EffectPrepares PROVE WebIInv'
    OBVIOUS
  <1>1. EffectOk'
    BY DEF WebIInv, EffectOk, Ask, EffectPrepares, serverVars
  <1>2. PageOk' /\ OthersOk'
    BY DEF WebIInv, PageOk, OthersOk, EffectPrepares, serverVars
  <1> QED
    BY <1>1, <1>2, PageStep DEF EffectPrepares

\* The only step in which a stream begins, and only for the holder.
LEMMA EffectPlaysKeeps == WebIInv /\ EffectPlays => WebIInv'
  <1> SUFFICES ASSUME WebIInv, EffectPlays PROVE WebIInv'
    OBVIOUS
  <1> DEFINE t == effect.session
             p == Streams(page, t)
  <1>1. /\ t \in Ticket /\ owner = t /\ effect.media \in Clip
        /\ effect.media = page.media /\ ~page.observing /\ clipOf[t] = page.media
    BY DEF WebIInv, EffectOk, Ask, EffectPlays, ServerOk, ServerTypeOK
  <1>2. /\ p \in Page /\ p.source = t /\ p.element = "loading" /\ p.pending = FALSE
        /\ p.media = page.media /\ p.observing = page.observing
    BY <1>1 DEF Streams, WebIInv, PageOk, Page, Element
  <1>3. page' = Rested(p, online) /\ UNCHANGED clipOf
    BY DEF EffectPlays, serverVars
  <1> HIDE DEF p, t
  <1>4. /\ page' \in Page /\ page'.source = t /\ page'.element = "loading" /\ ~page'.pending
        /\ page'.media = page.media /\ page'.observing = page.observing
    BY <1>2, <1>3 DEF Rested, Page, WebIInv, ServerOk, ServerTypeOK
  <1>5. PageOk'
    BY <1>1, <1>3, <1>4, ServerAssumption DEF PageOk
  <1>6. ServerOk'
    BY <1>1, BoundKeeps DEF WebIInv, EffectPlays, t
  <1>7. EffectOk' /\ OthersOk' /\ owner' # Rival
    BY <1>1, ServerAssumption DEF WebIInv, EffectOk, OthersOk, EffectPlays, serverVars
  <1> QED
    BY <1>5, <1>6, <1>7 DEF WebIInv, LoserStreamsNothing

LEMMA EffectFailsKeeps == WebIInv /\ EffectFails => WebIInv'
  <1> SUFFICES ASSUME WebIInv, EffectFails PROVE WebIInv'
    OBVIOUS
  <1> DEFINE conflict == \/ effect.at = "refused"
                         \/ effect.at = "prepare" /\ owner # effect.session /\ effect.session \in valid
             p == [page EXCEPT !.pending = FALSE, !.paused = TRUE, !.observing = conflict]
  <1>1. /\ effect \in Ask /\ effect' = NoOne /\ ghost' = Ghost(effect)
        /\ page' = (IF conflict THEN Emptied(p) ELSE p)
        /\ UNCHANGED <<serverVars, wireVars, resume, force, watch>>
    BY DEF WebIInv, EffectOk, EffectFails
  <1>2. EffectOk' /\ OthersOk'
    BY <1>1, GhostFacts DEF EffectOk, WebIInv, OthersOk
  <1>3. PageOk' /\ page'.source \in {page.source, NoOne}
    BY <1>1 DEF WebIInv, PageOk, Page, Element, Emptied, serverVars
  <1> QED
    BY <1>1, <1>2, <1>3, PageStep

LEMMA ResumePlaysKeeps == WebIInv /\ ResumePlays => WebIInv'
  <1> SUFFICES ASSUME WebIInv, ResumePlays PROVE WebIInv'
    OBVIOUS
  <1>1. resume.session \in Ticket \union {NoOne}
    BY DEF WebIInv, OthersOk, Ask, ResumePlays
  <1>2. ServerOk' /\ (online => news' # <<>>)
    BY <1>1, BoundKeeps DEF WebIInv, ResumePlays
  <1>3. /\ page' \in Page /\ (page'.source = NoOne) = (page'.element = "empty")
        /\ page'.source = page.source /\ page'.media = page.media
        /\ page'.observing = page.observing /\ page'.pending = page.pending
    BY <1>1 DEF WebIInv, PageOk, Page, Element, ResumePlays
  <1>4. PageOk' /\ EffectOk' /\ OthersOk'
    BY <1>3 DEF WebIInv, PageOk, EffectOk, OthersOk, ResumePlays, serverVars
  <1> QED
    BY <1>2, <1>4 DEF WebIInv, LoserStreamsNothing, ResumePlays

\* A commit that the server has no part in.
LEMMA CommitAlone ==
    ASSUME WebIInv, NEW p, Fits(p), Commit(p), UNCHANGED <<serverVars, wireVars>>,
           resume' \in Ask \union {NoOne}, UNCHANGED force, watch' \in Clip \union {NoOne}
    PROVE  WebIInv'
  <1>1. ServerOk'
    BY DEF WebIInv, ServerOk, ServerTypeOK, NewsOk, serverVars, wireVars
  <1> QED
    BY <1>1, CommitIsSafe DEF WebIInv, OthersOk, serverVars, wireVars

LEMMA ResumeFailsKeeps == WebIInv /\ ResumeFails => WebIInv'
  <1> SUFFICES ASSUME WebIInv, ResumeFails PROVE WebIInv'
    OBVIOUS
  <1>1. Fits(Lost(page, resume.at = "refused"))
    BY LostFits DEF WebIInv
  <1> QED
    BY <1>1, CommitAlone DEF ResumeFails, WebIInv, OthersOk

-----------------------------------------------------------------------------
(* The socket and what replaces it *)

LEMMA LeaseLossArrivesKeeps == WebIInv /\ LeaseLossArrives => WebIInv'
  <1> SUFFICES ASSUME WebIInv, LeaseLossArrives PROVE WebIInv'
    OBVIOUS
  <1>1. /\ ServerOk' /\ (news' = <<>> /\ owner = Rival => Head(news) = Busy)
    BY ArriveKeeps DEF WebIInv, LeaseLossArrives, Arriving
  <1>2. ~(online' /\ news' = <<>> /\ owner' = Rival)
    BY <1>1 DEF LeaseLossArrives, Arriving, Busy, serverVars
  <1>3. CASE Commit(Lost(page, TRUE))
    <2>1. Fits(Lost(page, TRUE))
      BY LostFits DEF WebIInv
    <2> QED
      BY <1>1, <1>2, <1>3, <2>1, CommitIsSafe DEF LeaseLossArrives, WebIInv, OthersOk, serverVars
  <1>4. CASE UNCHANGED <<page, effect, ghost>>
    BY <1>1, <1>2, <1>4 DEF LeaseLossArrives, WebIInv, PageOk, EffectOk, OthersOk,
       LoserStreamsNothing, serverVars
  <1> QED
    BY <1>3, <1>4 DEF LeaseLossArrives

LEMMA StateArrivesKeeps == WebIInv /\ StateArrives => WebIInv'
  <1> SUFFICES ASSUME WebIInv, StateArrives PROVE WebIInv'
    OBVIOUS
  <1> DEFINE state == Head(news).state
             left == [page EXCEPT !.media = IF page.observing THEN NoOne ELSE @, !.observing = FALSE]
             beaten == IF page.session = NoOne THEN page ELSE [Lost(page, TRUE) EXCEPT !.service = NoOne]
  <1>1. /\ ServerOk' /\ (news' = <<>> /\ owner = Rival => state = "busy")
    BY ArriveKeeps DEF WebIInv, StateArrives, Arriving, Busy
  <1>2. UNCHANGED <<serverVars, entry, online, resume, force>>
    BY DEF StateArrives
  <1>3. watch' \in Clip \union {NoOne}
    BY ServerAssumption DEF StateArrives
  <1>4. CASE UNCHANGED <<page, effect, ghost>> /\ (page.pending \/ state = "owned")
    <2>1. news' = <<>> /\ owner = Rival => page.source = NoOne
      BY <1>1, <1>4 DEF WebIInv, PageOk
    <2> QED
      BY <1>1, <1>2, <1>3, <1>4, <2>1 DEF WebIInv, PageOk, EffectOk, OthersOk, LoserStreamsNothing, serverVars
  <1>5. ASSUME ~page.pending, state = "available", Commit([left EXCEPT !.stale = @ \/ page.session # NoOne])
        PROVE  WebIInv'
    <2> DEFINE p == [left EXCEPT !.stale = @ \/ page.session # NoOne]
    <2>1. Fits(p)
      BY DEF WebIInv, PageOk, Page, Fits
    <2>2. ~(news' = <<>> /\ owner' = Rival)
      BY <1>1, <1>2, <1>5 DEF serverVars
    <2> HIDE DEF p
    <2> QED
      BY <1>1, <1>2, <1>3, <1>5, <2>1, <2>2, CommitIsSafe DEF WebIInv, OthersOk, serverVars, p
  <1>6. ASSUME ~page.pending, state = "owned", Commit(left) PROVE WebIInv'
    <2>1. Fits(left)
      BY DEF WebIInv, PageOk, Page, Fits
    <2>2. ~(news' = <<>> /\ owner' = Rival)
      BY <1>1, <1>2, <1>6 DEF serverVars
    <2> HIDE DEF left, state
    <2> QED
      BY <1>1, <1>2, <1>3, <1>6, <2>1, <2>2, CommitIsSafe DEF WebIInv, OthersOk, serverVars
  <1>7. ASSUME ~page.pending, state = "busy",
               Commit([beaten EXCEPT !.observing = TRUE,
                                     !.paused = IF page.media = RivalClip THEN FALSE ELSE @])
        PROVE  WebIInv'
    <2> DEFINE p == [beaten EXCEPT !.observing = TRUE,
                                   !.paused = IF page.media = RivalClip THEN FALSE ELSE @]
    <2>1. Fits(p)
      BY DEF WebIInv, PageOk, Page, Element, Fits, Lost, Emptied
    <2>2. page.observing => p.source = NoOne
      BY DEF WebIInv, PageOk, Page, Lost, Emptied
    <2>3. p.observing
      BY DEF WebIInv, PageOk, Page, Lost, Emptied
    <2> HIDE DEF p
    <2>4. Commit(p)
      BY <1>7 DEF p
    <2>5. /\ PageOk' /\ EffectOk' /\ ghost' \in Clip \union {NoOne} /\ page'.source = NoOne
      <3>1. /\ PageOk' /\ EffectOk' /\ ghost' \in Clip \union {NoOne}
            /\ page'.source \in {p.source, NoOne}
        BY <1>2, <2>1, <2>4, CommitKeeps DEF WebIInv, serverVars
      <3>2. ~page.observing => page' = Emptied(p)
        BY <2>3, <2>4 DEF Commit
      <3> QED
        BY <2>1, <2>2, <3>1, <3>2 DEF Emptied, Fits, Page
    <2> QED
      BY <1>1, <1>2, <1>3, <2>5 DEF WebIInv, OthersOk, LoserStreamsNothing
  <1> QED
    <2>1. Head(news) \in Message /\ Head(news).type = "state"
      BY ArriveKeeps DEF WebIInv, StateArrives, Arriving
    <2>2. state \in {"available", "owned", "busy"}
      BY <2>1 DEF Message
    <2>3. page.pending \in BOOLEAN
      BY DEF WebIInv, PageOk, Page
    <2> HIDE DEF state, left, beaten
    <2>4. \/ UNCHANGED <<page, effect, ghost>> /\ (page.pending \/ state = "owned")
          \/ ~page.pending /\ state = "available" /\ Commit([left EXCEPT !.stale = @ \/ page.session # NoOne])
          \/ ~page.pending /\ state = "owned" /\ Commit(left)
          \/ ~page.pending /\ state = "busy" /\
                Commit([beaten EXCEPT !.observing = TRUE,
                                      !.paused = IF page.media = RivalClip THEN FALSE ELSE @])
      BY <2>2, <2>3 DEF StateArrives, state, left, beaten
    <2> QED
      BY <1>4, <1>5, <1>6, <1>7, <2>4

LEMMA WatchArrivesKeeps == WebIInv /\ WatchArrives => WebIInv'
  <1> SUFFICES ASSUME WebIInv, WatchArrives PROVE WebIInv'
    OBVIOUS
  <1> DEFINE p == [page EXCEPT !.media = watch, !.observing = TRUE, !.paused = TRUE]
  <1>1. Commit(p) /\ Fits(p)
    BY DEF WatchArrives, WebIInv, PageOk, Page, Fits, OthersOk
  <1> HIDE DEF p
  <1> QED
    BY <1>1, CommitAlone DEF WatchArrives, WebIInv, OthersOk

LEMMA RestedFacts ==
    ASSUME NEW p \in Page, NEW ready \in BOOLEAN
    PROVE  /\ Rested(p, ready) \in Page
           /\ Rested(p, ready).source = p.source /\ Rested(p, ready).element = p.element
           /\ Rested(p, ready).media = p.media /\ Rested(p, ready).observing = p.observing
           /\ Rested(p, ready).pending = p.pending
  BY DEF Rested, Page

LEMMA SocketKeeps == WebIInv /\ (SocketCloses \/ SocketOpens) => WebIInv'
  <1> SUFFICES ASSUME WebIInv, SocketCloses \/ SocketOpens PROVE WebIInv'
    OBVIOUS
  <1>1. CASE SocketCloses
    <2>1. ServerOk' /\ ~online'
      BY <1>1, CloseKeeps DEF WebIInv, SocketCloses
    <2>2. PageOk' /\ EffectOk' /\ OthersOk'
      BY <1>1, RestedFacts DEF WebIInv, PageOk, EffectOk, OthersOk, SocketCloses, serverVars, requestVars
    <2> QED
      BY <2>1, <2>2 DEF WebIInv, LoserStreamsNothing
  <1>2. CASE SocketOpens
    <2>1. page.service \in Ticket \union {NoOne}
      BY DEF WebIInv, PageOk, Page
    <2>2. ServerOk' /\ news' # <<>>
      BY <1>2, <2>1, ReadyKeeps DEF WebIInv, SocketOpens
    <2> QED
      BY <1>2, <2>2 DEF WebIInv, PageOk, EffectOk, OthersOk, LoserStreamsNothing, SocketOpens, serverVars, requestVars
  <1> QED
    BY <1>1, <1>2

LEMMA HeartbeatKeeps == WebIInv /\ Heartbeat => WebIInv'
  <1> SUFFICES ASSUME WebIInv, Heartbeat PROVE WebIInv'
    OBVIOUS
  <1>1. UNCHANGED <<serverVars, wireVars, resume, force, watch>> /\ OthersOk \in BOOLEAN
    BY DEF Heartbeat, OthersOk
  <1>2. ASSUME page' = [page EXCEPT !.stale = FALSE], UNCHANGED <<effect, ghost>> PROVE WebIInv'
    <2>1. /\ page' \in Page /\ page'.source = page.source /\ page'.element = page.element
          /\ page'.media = page.media /\ page'.observing = page.observing /\ page'.pending = page.pending
      BY <1>2 DEF WebIInv, PageOk, Page
    <2>2. OthersOk'
      BY <1>1, <1>2 DEF WebIInv, OthersOk
    <2> QED
      BY <1>1, <1>2, <2>1, <2>2, SameKeeps DEF WebIInv, PageOk
  <1>3. ASSUME NEW conflict \in BOOLEAN, Commit(Lost(page, conflict)) PROVE WebIInv'
    <2>1. Fits(Lost(page, conflict))
      BY LostFits DEF WebIInv
    <2> QED
      BY <1>1, <1>3, <2>1, CommitAlone DEF WebIInv, OthersOk
  <1> QED
    <2>1. (page.session \in valid) \in BOOLEAN
      OBVIOUS
    <2> QED
      BY <1>2, <1>3, <2>1 DEF Heartbeat

LEMMA PollKeeps == WebIInv /\ Poll => WebIInv'
  <1> SUFFICES ASSUME WebIInv, Poll PROVE WebIInv'
    OBVIOUS
  <1>1. PICK p : Commit(p) /\ Fits(p)
    <2>1. /\ ~page.observing => Fits([page EXCEPT !.observing = TRUE])
          /\ page.observing => Fits([page EXCEPT !.media = RivalClip, !.paused = page.media # RivalClip])
          /\ page.observing => Fits([page EXCEPT !.media = NoOne, !.observing = FALSE])
      BY ServerAssumption DEF WebIInv, PageOk, Page, Fits
    <2> QED
      BY <2>1 DEF Poll
  <1> QED
    BY <1>1, CommitAlone DEF Poll, WebIInv, OthersOk

-----------------------------------------------------------------------------
(* The web player's theorems *)

LEMMA ServerIInvInit == ServerInit => ServerOk
  <1> SUFFICES ASSUME ServerInit PROVE ServerOk
    OBVIOUS
  <1>1. news \in Seq(Message) /\ news = <<>>
    BY EmptySeq DEF ServerInit
  <1>2. clipOf \in [Ticket -> Clip \union {NoOne}]
    BY DEF ServerInit
  <1> QED
    BY <1>1, <1>2 DEF ServerInit, ServerOk, ServerTypeOK, NewsOk, Unbound

LEMMA WebIInvInit == WebInit => WebIInv
  <1> SUFFICES ASSUME WebInit PROVE WebIInv
    OBVIOUS
  <1>1. ServerOk
    BY ServerIInvInit DEF WebInit
  <1>2. PageOk
    BY DEF WebInit, PageOk, Page, Element
  <1> QED
    BY <1>1, <1>2 DEF WebInit, WebIInv, EffectOk, OthersOk, LoserStreamsNothing

LEMMA WebIInvNext == WebIInv /\ [WebNext]_webVars => WebIInv'
  <1> SUFFICES ASSUME WebIInv, [WebNext]_webVars PROVE WebIInv'
    OBVIOUS
  <1>1. CASE UNCHANGED webVars
    BY <1>1, PageStep DEF webVars, requestVars, WebIInv, PageOk, EffectOk, OthersOk, serverVars
  <1> QED
    BY <1>1, ServeEffectKeeps, ServeResumeKeeps, ServeGhostKeeps, ServeForceKeeps, WorldIsSafe,
       PlayMediaKeeps, PlayMediaByIdKeeps, ToggleKeeps, LoadedKeeps, StopKeeps, TakeOverKeeps,
       TakeOverDoneKeeps, EffectPreparesKeeps, EffectPlaysKeeps, EffectFailsKeeps,
       ResumePlaysKeeps, ResumeFailsKeeps, LeaseLossArrivesKeeps, StateArrivesKeeps,
       WatchArrivesKeeps, SocketKeeps, HeartbeatKeeps, PollKeeps DEF WebNext

\* The invariant of the page holds in every state, for any number of media and
\* sessions and whatever room the socket has.
THEOREM WebInvariant == WebSpec => []WebIInv
  <1> QED
    BY WebIInvInit, WebIInvNext, PTL DEF WebSpec

\* What the page streams is the session of the medium that it shows: an answer
\* that comes when the page has gone on is dropped, released or for what is
\* shown again (GlobalPlayer.jsx).
THEOREM StreamsWhatItShows == WebSpec => []WebInv
  <1>1. WebIInv => WebInv
    BY DEF WebIInv, ServerOk, PageOk, EffectOk, OthersOk, WebInv, WebTypeOK, StreamIsCurrent
  <1> QED
    BY <1>1, WebInvariant, PTL

\* A page that has heard all the news streams nothing while another device holds
\* the lease, whatever requests of its own are still under way.
THEOREM LoserIsSilent == WebSpec => []LoserStreamsNothing
  <1>1. WebIInv => LoserStreamsNothing
    BY DEF WebIInv
  <1> QED
    BY <1>1, WebInvariant, PTL

-----------------------------------------------------------------------------
(* The phone *)

PhoneOk ==
    /\ phone \in Phone
    /\ SoundIsShown /\ SoundIsOfSource

\* What was streamed does not sound without its source.
SilentOk ==
    phone.source = NoOne /\ phone.sound # NoOne /\ phone.sound.from # NoOne /\ strays = {}
        => ~phone.sound.playing

\* A load that was not superseded is of the track that is shown.
LoadsOk ==
    /\ loadAudio \in [Turn -> AudioLoad \union {NoOne}]
    /\ \A n \in Turn : loadAudio[n] # NoOne /\ loadAudio[n].fresh => loadAudio[n].media = phone.media

RestOk ==
    /\ watches \in 0..MaxWatches
    /\ admin \in [media : Clip, at : {"sent", "done"}] \union {NoOne}
    /\ strays \subseteq {"seek", "sleep", "repeat"}

NoSource == online /\ news = <<>> /\ owner = Rival => phone.source = NoOne

PhoneIInv == ServerOk /\ PhoneOk /\ SilentOk /\ LoadsOk /\ RestOk /\ NoSource

LEMMA SupersededFacts ==
    ASSUME LoadsOk
    PROVE  /\ Superseded \in [Turn -> AudioLoad \union {NoOne}]
           /\ \A n \in Turn : Superseded[n] = NoOne \/ ~Superseded[n].fresh
  BY DEF LoadsOk, Superseded, AudioLoad

LEMMA PlayingFacts ==
    ASSUME NEW p \in Phone, NEW on \in BOOLEAN
    PROVE  /\ Playing(p, on) \in Phone
           /\ Playing(p, on).media = p.media /\ Playing(p, on).source = p.source
           /\ p.sound = NoOne => Playing(p, on).sound = NoOne
           /\ p.sound # NoOne => Playing(p, on).sound = [p.sound EXCEPT !.playing = on]
  BY DEF Playing, Phone, Sound

LEMMA SilencedFacts ==
    ASSUME NEW p \in Phone
    PROVE  /\ Silenced(p) \in Phone /\ Silenced(p).source = NoOne /\ Silenced(p).media = p.media
           /\ p.sound = NoOne => Silenced(p).sound = NoOne
           /\ p.sound # NoOne => Silenced(p).sound = [p.sound EXCEPT !.playing = FALSE]
  BY DEF Silenced, Playing, Phone, Sound

\* The server and the phone in a step whose loads stay.
LEMMA PhoneStep ==
    ASSUME PhoneIInv, ServerOk', RestOk', UNCHANGED loadAudio, phone' \in Phone,
           phone'.media = phone.media, SoundIsShown', SoundIsOfSource', SilentOk', NoSource'
    PROVE  PhoneIInv'
  BY DEF PhoneIInv, PhoneOk, LoadsOk

LEMMA StillServer ==
    ASSUME PhoneIInv, UNCHANGED <<serverVars, wireVars>>, phone'.source \in {phone.source, NoOne}
    PROVE  ServerOk' /\ NoSource'
  BY DEF PhoneIInv, ServerOk, ServerTypeOK, NewsOk, NoSource, serverVars, wireVars

LEMMA StartMediaKeeps ==
    ASSUME PhoneIInv, NEW p \in Phone, NEW m \in Clip, NEW autoplay \in BOOLEAN, NEW seeks \in BOOLEAN,
           p.source = phone.source, StartMedia(p, m, autoplay, seeks), UNCHANGED <<serverVars, wireVars>>, RestOk'
    PROVE  PhoneIInv'
  <1> DEFINE begun == [media |-> m, autoplay |-> autoplay, fresh |-> TRUE,
                       at |-> IF m \in Downloaded THEN "seek" ELSE "sent", session |-> NoOne]
  <1>1. /\ phone' \in Phone /\ phone'.media = m /\ phone'.source \in {phone.source, NoOne}
        /\ \/ phone'.sound = NoOne
           \/ /\ phone'.sound \in Sound /\ phone'.sound.media = m /\ phone'.sound.from = NoOne
              /\ phone'.source = NoOne
    <2> DEFINE q == [p EXCEPT !.revoked = FALSE, !.media = m, !.sound = NoOne,
                              !.paused = ~autoplay, !.awaiting = autoplay]
               sound == [media |-> m, from |-> NoOne, playing |-> autoplay /\ ~seeks]
               local == [q EXCEPT !.source = NoOne, !.conflict = FALSE, !.sound = sound]
    <2>1. q \in Phone /\ q.media = m /\ q.source = p.source /\ q.sound = NoOne
      BY DEF Phone
    <2>2. sound \in Sound /\ sound.media = m /\ sound.from = NoOne
      BY DEF Sound
    <2>3. phone' = IF m \in Downloaded THEN local ELSE q
      BY DEF StartMedia
    <2> HIDE DEF q, sound
    <2>4. local \in Phone /\ local.media = m /\ local.source = NoOne /\ local.sound = sound
      BY <2>1, <2>2 DEF Phone
    <2> HIDE DEF local
    <2> QED
      BY <2>1, <2>2, <2>3, <2>4
  <1>2. LoadsOk'
    <2>1. CASE loadAudio' = Superseded
      BY <2>1, SupersededFacts DEF PhoneIInv, LoadsOk
    <2>2. ASSUME NEW n \in Turn, loadAudio' = [Superseded EXCEPT ![n] = begun] PROVE LoadsOk'
      <3>1. begun \in AudioLoad
        BY DEF AudioLoad
      <3> HIDE DEF begun
      <3>2. loadAudio' \in [Turn -> AudioLoad \union {NoOne}]
        BY <2>2, <3>1, SupersededFacts DEF PhoneIInv
      <3>3. begun.media = m
        BY DEF begun
      <3> QED
        BY <1>1, <2>2, <3>2, <3>3, SupersededFacts DEF PhoneIInv, LoadsOk
    <2> QED
      BY <2>1, <2>2 DEF StartMedia
  <1>3. ServerOk' /\ NoSource'
    BY <1>1, StillServer
  <1> QED
    BY <1>1, <1>2, <1>3 DEF PhoneIInv, PhoneOk, SoundIsShown, SoundIsOfSource, SilentOk, Sound

LEMMA LoadFacts ==
    ASSUME PhoneIInv, NEW n \in Turn, loadAudio[n] # NoOne
    PROVE  loadAudio[n] \in AudioLoad /\ loadAudio[n].media \in Clip /\ loadAudio[n].fresh \in BOOLEAN
  BY DEF PhoneIInv, LoadsOk, AudioLoad

\* A load ends or goes on with its track.
LEMMA AudioStep ==
    ASSUME PhoneIInv, NEW n \in Turn, loadAudio[n] # NoOne, NEW l \in AudioLoad \union {NoOne},
           l # NoOne => l.media = loadAudio[n].media /\ l.fresh = loadAudio[n].fresh,
           loadAudio' = [loadAudio EXCEPT ![n] = l], phone'.media = phone.media
    PROVE  LoadsOk'
  BY DEF PhoneIInv, LoadsOk

\* Steps that the phone's state does not take part in.
LEMMA PhoneStays ==
    ASSUME PhoneIInv, UNCHANGED <<phone, strays>>, ServerOk', LoadsOk', RestOk', NoSource'
    PROVE  PhoneIInv'
  BY DEF PhoneIInv, PhoneOk, SoundIsShown, SoundIsOfSource, SilentOk

LEMMA ServeAudioKeeps == ASSUME NEW n \in Turn PROVE PhoneIInv /\ ServeAudio(n) => PhoneIInv'
  <1> SUFFICES ASSUME PhoneIInv, ServeAudio(n) PROVE PhoneIInv'
    OBVIOUS
  <1>1. loadAudio[n] # NoOne /\ loadAudio[n] \in AudioLoad /\ loadAudio[n].media \in Clip
    BY LoadFacts DEF ServeAudio
  <1>2. RestOk' /\ UNCHANGED <<phone, strays>>
    BY DEF PhoneIInv, RestOk, ServeAudio, OthersStay
  <1>3. ASSUME NEW t \in Ticket, Acquire(t, loadAudio[n].media),
               loadAudio' = [loadAudio EXCEPT ![n].at = "made", ![n].session = t]
        PROVE  PhoneIInv'
    <2>1. ServerOk' /\ owner' # Rival
      BY <1>1, <1>3, AcquireKeeps, ServerAssumption DEF PhoneIInv
    <2>2. LoadsOk'
      BY <1>1, <1>2, <1>3 DEF PhoneIInv, LoadsOk, AudioLoad
    <2> QED
      BY <1>2, <2>1, <2>2, PhoneStays DEF NoSource
  <1>4. ASSUME loadAudio' = [loadAudio EXCEPT ![n].at = "refused"], ServerStays PROVE PhoneIInv'
    <2>1. ServerOk' /\ NoSource'
      BY <1>2, <1>4, StillServer DEF ServerStays
    <2>2. LoadsOk'
      BY <1>1, <1>2, <1>4 DEF PhoneIInv, LoadsOk, AudioLoad
    <2> QED
      BY <1>2, <2>1, <2>2, PhoneStays
  <1> QED
    BY <1>3, <1>4 DEF ServeAudio

LEMMA ServeAdminKeeps == PhoneIInv /\ ServeAdmin => PhoneIInv'
  <1> SUFFICES ASSUME PhoneIInv, ServeAdmin PROVE PhoneIInv'
    OBVIOUS
  <1>1. ServerOk' /\ owner' # Rival
    BY ForceKeeps DEF PhoneIInv, ServeAdmin
  <1>2. RestOk' /\ LoadsOk' /\ UNCHANGED <<phone, strays>>
    BY DEF PhoneIInv, RestOk, LoadsOk, ServeAdmin, LoadsStay
  <1> QED
    BY <1>1, <1>2, PhoneStays DEF NoSource

LEMMA PhoneWorldKeeps == PhoneIInv /\ (LeaseEnds \/ RivalTakes) /\ UNCHANGED phoneVars => PhoneIInv'
  <1> SUFFICES ASSUME PhoneIInv, LeaseEnds \/ RivalTakes, UNCHANGED phoneVars PROVE PhoneIInv'
    OBVIOUS
  <1>1. ServerOk' /\ online' = online /\ (online => news' # <<>>)
    BY WorldKeeps DEF PhoneIInv
  <1>2. RestOk' /\ LoadsOk' /\ UNCHANGED <<phone, strays>>
    BY DEF PhoneIInv, RestOk, LoadsOk, phoneVars
  <1> QED
    BY <1>1, <1>2, PhoneStays DEF NoSource

LEMMA AudioPreparesKeeps == ASSUME NEW n \in Turn PROVE PhoneIInv /\ AudioPrepares(n) => PhoneIInv'
  <1> SUFFICES ASSUME PhoneIInv, AudioPrepares(n) PROVE PhoneIInv'
    OBVIOUS
  <1>1. loadAudio[n] \in AudioLoad
    BY LoadFacts DEF AudioPrepares
  <1>2. RestOk' /\ UNCHANGED <<phone, strays>>
    BY DEF PhoneIInv, RestOk, AudioPrepares, OthersStay
  <1>3. LoadsOk'
    BY <1>1, <1>2 DEF PhoneIInv, LoadsOk, AudioLoad, AudioPrepares
  <1>4. ServerOk' /\ NoSource'
    BY <1>2, StillServer DEF AudioPrepares, ServerStays
  <1> QED
    BY <1>2, <1>3, <1>4, PhoneStays

LEMMA AudioReleasesKeeps == ASSUME NEW n \in Turn PROVE PhoneIInv /\ AudioReleases(n) => PhoneIInv'
  <1> SUFFICES ASSUME PhoneIInv, AudioReleases(n) PROVE PhoneIInv'
    OBVIOUS
  <1>1. loadAudio[n] # NoOne /\ loadAudio[n].session \in Ticket
    BY DEF AudioReleases, PhoneIInv, ServerOk, ServerTypeOK
  <1>2. ServerOk' /\ (owner' = Rival => UNCHANGED <<owner, wireVars>>)
    BY <1>1, ReleaseKeeps DEF PhoneIInv, AudioReleases
  <1>3. RestOk' /\ UNCHANGED <<phone, strays>>
    BY DEF PhoneIInv, RestOk, AudioReleases, OthersStay
  <1>4. LoadsOk'
    BY <1>1, <1>3, AudioStep DEF AudioReleases, AudioEnds
  <1>5. NoSource'
    BY <1>2, <1>3 DEF PhoneIInv, NoSource, wireVars
  <1> QED
    BY <1>2, <1>3, <1>4, <1>5, PhoneStays

\* The only step that gives the phone a source, and only the holder's.
LEMMA AudioOpensKeeps == ASSUME NEW n \in Turn PROVE PhoneIInv /\ AudioOpens(n) => PhoneIInv'
  <1> SUFFICES ASSUME PhoneIInv, AudioOpens(n) PROVE PhoneIInv'
    OBVIOUS
  <1> DEFINE l == loadAudio[n]
  <1>1. /\ l # NoOne /\ l \in AudioLoad /\ l.media \in Clip /\ l.session \in Ticket
        /\ l.fresh /\ l.autoplay \in BOOLEAN /\ l.media = phone.media /\ owner = l.session
    BY LoadFacts DEF AudioOpens, PhoneIInv, ServerOk, ServerTypeOK, LoadsOk, AudioLoad
  <1>2. PICK seeks \in BOOLEAN :
          /\ phone' = [phone EXCEPT !.source = l.session, !.service = l.session, !.conflict = FALSE,
                           !.sound = [media |-> l.media, from |-> l.session,
                                      playing |-> l.autoplay /\ ~seeks]]
          /\ loadAudio' = [loadAudio EXCEPT ![n] = IF seeks THEN [l EXCEPT !.at = "seek"] ELSE NoOne]
    BY DEF AudioOpens
  <1>3. ServerOk' /\ owner' = owner
    BY <1>1, BoundKeeps DEF PhoneIInv, AudioOpens, serverVars
  <1>4. /\ phone' \in Phone /\ phone'.media = l.media /\ phone'.source = l.session
        /\ phone'.sound.media = l.media /\ phone'.sound.from = l.session
    BY <1>1, <1>2 DEF PhoneIInv, PhoneOk, Phone, Sound
  <1> DEFINE rest == IF seeks THEN [l EXCEPT !.at = "seek"] ELSE NoOne
  <1>5. /\ rest \in AudioLoad \union {NoOne}
        /\ rest # NoOne => rest.media = l.media /\ rest.fresh = l.fresh
    BY <1>1 DEF AudioLoad
  <1>6. LoadsOk'
    <2> HIDE DEF rest
    <2>1. loadAudio' = [loadAudio EXCEPT ![n] = rest]
      BY <1>2 DEF rest
    <2> QED
      BY <1>1, <1>4, <1>5, <2>1, AudioStep
  <1>7. PhoneOk' /\ SilentOk' /\ NoSource'
    BY <1>1, <1>3, <1>4, ServerAssumption DEF PhoneOk, SoundIsShown, SoundIsOfSource, SilentOk, NoSource
  <1>8. RestOk'
    BY DEF PhoneIInv, RestOk, AudioOpens, OthersStay
  <1> QED
    BY <1>3, <1>6, <1>7, <1>8 DEF PhoneIInv

\* What is heard after the seek has its source, or is a stray.
LEMMA AudioSeeksKeeps == ASSUME NEW n \in Turn PROVE PhoneIInv /\ AudioSeeks(n) => PhoneIInv'
  <1> SUFFICES ASSUME PhoneIInv, AudioSeeks(n) PROVE PhoneIInv'
    OBVIOUS
  <1> DEFINE l == loadAudio[n]
             stray == phone.sound # NoOne /\ phone.sound.from # phone.source
  <1>1. /\ l # NoOne /\ l.fresh \in BOOLEAN /\ l.autoplay \in BOOLEAN
        /\ phone' = (IF l.fresh THEN Playing(phone, l.autoplay) ELSE phone)
        /\ strays' = strays \union (IF l.fresh /\ l.autoplay /\ stray THEN {"seek"} ELSE {})
    BY LoadFacts DEF AudioSeeks, AudioLoad
  <1>2. phone \in Phone
    BY DEF PhoneIInv, PhoneOk
  <1> HIDE DEF l
  <1>3. /\ phone' \in Phone /\ phone'.media = phone.media /\ phone'.source = phone.source
        /\ phone.sound = NoOne => phone'.sound = NoOne
        /\ phone.sound # NoOne => /\ phone'.sound.from = phone.sound.from
                                  /\ phone'.sound.media = phone.sound.media
                                  /\ phone'.sound.playing => phone.sound.playing \/ (l.fresh /\ l.autoplay)
    <2>1. CASE ~l.fresh
      BY <1>1, <1>2, <2>1
    <2>2. CASE l.fresh
      <3>1. phone' = Playing(phone, l.autoplay)
        BY <1>1, <2>2
      <3>2. /\ phone' \in Phone /\ phone'.media = phone.media /\ phone'.source = phone.source
            /\ phone.sound = NoOne => phone'.sound = NoOne
            /\ phone.sound # NoOne => phone'.sound = [phone.sound EXCEPT !.playing = l.autoplay]
        BY <1>1, <1>2, <3>1, PlayingFacts
      <3>3. phone.sound # NoOne => phone.sound \in Sound
        BY <1>2 DEF Phone
      <3> QED
        BY <2>2, <3>2, <3>3 DEF Sound
    <2> QED
      BY <1>1, <2>1, <2>2
  <1>4. ServerOk' /\ NoSource'
    BY <1>3, StillServer DEF AudioSeeks, ServerStays
  <1>5. PhoneOk'
    BY <1>3 DEF PhoneIInv, PhoneOk, SoundIsShown, SoundIsOfSource
  <1>6. SilentOk'
    BY <1>1, <1>3 DEF PhoneIInv, SilentOk
  <1>7. LoadsOk'
    BY <1>1, <1>3, AudioStep DEF AudioSeeks, AudioEnds, l
  <1>8. RestOk'
    BY <1>1 DEF PhoneIInv, RestOk, AudioSeeks
  <1> QED
    BY <1>4, <1>5, <1>6, <1>7, <1>8 DEF PhoneIInv

\* A change of flags of the phone.
LEMMA FlagsKeep ==
    ASSUME PhoneIInv, phone' \in Phone, phone'.media = phone.media, phone'.source = phone.source,
           phone'.sound = phone.sound, UNCHANGED strays
    PROVE  PhoneOk' /\ SilentOk'
  BY DEF PhoneIInv, PhoneOk, SoundIsShown, SoundIsOfSource, SilentOk

LEMMA AudioFailsKeeps == ASSUME NEW n \in Turn PROVE PhoneIInv /\ AudioFails(n) => PhoneIInv'
  <1> SUFFICES ASSUME PhoneIInv, AudioFails(n) PROVE PhoneIInv'
    OBVIOUS
  <1>1. PICK conflict \in BOOLEAN :
          phone' = IF loadAudio[n].fresh THEN [phone EXCEPT !.conflict = conflict] ELSE phone
    BY DEF AudioFails
  <1>2. /\ phone' \in Phone /\ phone'.media = phone.media /\ phone'.source = phone.source
        /\ phone'.sound = phone.sound
    BY <1>1 DEF PhoneIInv, PhoneOk, Phone
  <1>3. ServerOk' /\ NoSource'
    BY <1>2, StillServer DEF AudioFails, ServerStays
  <1>4. LoadsOk'
    BY <1>2, AudioStep DEF AudioFails, AudioEnds
  <1>5. RestOk' /\ UNCHANGED strays
    BY DEF PhoneIInv, RestOk, AudioFails, OthersStay
  <1> QED
    BY <1>2, <1>3, <1>4, <1>5, FlagsKeep DEF PhoneIInv

-----------------------------------------------------------------------------
(* The phone's user *)

LEMMA PlayTrackKeeps == ASSUME NEW m \in Clip PROVE PhoneIInv /\ PlayTrack(m) => PhoneIInv'
  <1> SUFFICES ASSUME PhoneIInv, PlayTrack(m) PROVE PhoneIInv'
    OBVIOUS
  <1>1. phone \in Phone /\ RestOk'
    BY DEF PhoneIInv, PhoneOk, RestOk, PlayTrack, OthersStay
  <1> QED
    BY <1>1, StartMediaKeeps DEF PlayTrack, ServerStays

LEMMA TogglePlaybackKeeps == PhoneIInv /\ TogglePlayback => PhoneIInv'
  <1> SUFFICES ASSUME PhoneIInv, TogglePlayback PROVE PhoneIInv'
    OBVIOUS
  <1>1. phone \in Phone /\ RestOk' /\ phone.media \in Clip /\ UNCHANGED strays
    BY DEF PhoneIInv, PhoneOk, RestOk, TogglePlayback, OthersStay, Phone
  <1>2. CASE phone.source = NoOne
    BY <1>1, <1>2, StartMediaKeeps DEF TogglePlayback, ServerStays
  <1>3. CASE phone.source # NoOne
    <2> DEFINE p == Playing(phone, phone.paused)
    <2>1. /\ p \in Phone /\ p.media = phone.media /\ p.source = phone.source
          /\ phone.sound = NoOne => p.sound = NoOne
          /\ phone.sound # NoOne => p.sound = [phone.sound EXCEPT !.playing = phone.paused]
      BY <1>1, PlayingFacts DEF Phone
    <2>2. phone' = [p EXCEPT !.awaiting = FALSE, !.paused = ~@] /\ LoadsStay
      BY <1>3 DEF TogglePlayback
    <2> HIDE DEF p
    <2>3. /\ phone' \in Phone /\ phone'.media = phone.media /\ phone'.source = phone.source
          /\ phone'.sound = p.sound
      BY <2>1, <2>2 DEF Phone
    <2>4. SoundIsShown' /\ SoundIsOfSource'
      <3>1. phone.sound # NoOne => phone.sound \in Sound
        BY <1>1 DEF Phone
      <3> QED
        BY <2>1, <2>3, <3>1 DEF PhoneIInv, PhoneOk, SoundIsShown, SoundIsOfSource, Sound
    <2>5. SilentOk'
      BY <1>3, <2>3 DEF SilentOk
    <2>6. ServerOk' /\ NoSource'
      BY <2>3, StillServer DEF TogglePlayback, ServerStays
    <2> QED
      BY <1>1, <2>2, <2>3, <2>4, <2>5, <2>6, PhoneStep DEF LoadsStay
  <1> QED
    BY <1>2, <1>3

\* Steps that change flags alone.
LEMMA FlagStep ==
    ASSUME PhoneIInv, phone' \in Phone, phone'.media = phone.media, phone'.source = phone.source,
           phone'.sound = phone.sound, UNCHANGED <<strays, loadAudio>>, RestOk', ServerOk', NoSource'
    PROVE  PhoneIInv'
  BY FlagsKeep DEF PhoneIInv, LoadsOk

LEMMA StatusUpdateKeeps == PhoneIInv /\ StatusUpdate => PhoneIInv'
  <1> SUFFICES ASSUME PhoneIInv, StatusUpdate PROVE PhoneIInv'
    OBVIOUS
  <1>1. phone.sound \in Sound /\ phone \in Phone
    BY DEF PhoneIInv, PhoneOk, Phone, StatusUpdate
  <1>2. /\ phone' \in Phone /\ phone'.media = phone.media /\ phone'.source = phone.source
        /\ phone'.sound = phone.sound
    BY <1>1 DEF Phone, Sound, StatusUpdate
  <1>3. ServerOk' /\ NoSource'
    BY <1>2, StillServer DEF StatusUpdate, ServerStays
  <1>4. RestOk' /\ UNCHANGED <<strays, loadAudio>>
    BY DEF PhoneIInv, RestOk, StatusUpdate, OthersStay, LoadsStay
  <1> QED
    BY <1>2, <1>3, <1>4, FlagStep

LEMMA StopTrackKeeps == PhoneIInv /\ StopTrack => PhoneIInv'
  <1> SUFFICES ASSUME PhoneIInv, StopTrack PROVE PhoneIInv'
    OBVIOUS
  <1>1. phone \in Phone /\ phone.source \in Ticket \union {NoOne}
    BY DEF PhoneIInv, PhoneOk, Phone
  <1>2. ServerOk'
    BY <1>1, ReleaseKeeps DEF PhoneIInv, StopTrack
  <1>3. phone' \in Phone /\ phone'.source = NoOne /\ phone'.sound = NoOne
    BY <1>1 DEF Phone, StopTrack
  <1>4. LoadsOk'
    BY SupersededFacts DEF PhoneIInv, LoadsOk, StopTrack
  <1>5. RestOk'
    BY DEF PhoneIInv, RestOk, StopTrack, OthersStay
  <1> QED
    BY <1>2, <1>3, <1>4, <1>5 DEF PhoneIInv, PhoneOk, SoundIsShown, SoundIsOfSource, SilentOk, NoSource

LEMMA TakeOverAsksKeeps == PhoneIInv /\ (TakeOverAsks \/ TakeOverRefused) => PhoneIInv'
  <1> SUFFICES ASSUME PhoneIInv, TakeOverAsks \/ TakeOverRefused PROVE PhoneIInv'
    OBVIOUS
  <1>1. UNCHANGED <<phone, strays, loadAudio, watches>>
    BY DEF TakeOverAsks, TakeOverRefused, LoadsStay
  <1>3. LoadsOk'
    BY <1>1 DEF PhoneIInv, LoadsOk
  <1>4. phone.media \in Clip \union {NoOne}
    BY DEF PhoneIInv, PhoneOk, Phone
  <1>5. admin' \in [media : Clip, at : {"sent", "done"}] \union {NoOne}
    BY <1>4 DEF TakeOverAsks, TakeOverRefused
  <1>6. RestOk'
    BY <1>1, <1>5 DEF PhoneIInv, RestOk
  <1>2. ServerOk' /\ NoSource'
    BY <1>1, StillServer DEF TakeOverAsks, TakeOverRefused, ServerStays
  <1> QED
    BY <1>1, <1>2, <1>3, <1>6, PhoneStays

LEMMA TakeOverStartsKeeps == PhoneIInv /\ TakeOverStarts => PhoneIInv'
  <1> SUFFICES ASSUME PhoneIInv, TakeOverStarts PROVE PhoneIInv'
    OBVIOUS
  <1> DEFINE p == [phone EXCEPT !.conflict = FALSE]
  <1>1. p \in Phone /\ p.source = phone.source /\ admin.media \in Clip /\ RestOk'
    BY DEF PhoneIInv, PhoneOk, Phone, RestOk, TakeOverStarts
  <1>2. StartMedia(p, admin.media, TRUE, TRUE)
    BY DEF TakeOverStarts
  <1> HIDE DEF p
  <1> QED
    BY <1>1, <1>2, StartMediaKeeps DEF TakeOverStarts, ServerStays

LEMMA SleepTimerEndsKeeps == PhoneIInv /\ SleepTimerEnds => PhoneIInv'
  <1> SUFFICES ASSUME PhoneIInv, SleepTimerEnds PROVE PhoneIInv'
    OBVIOUS
  <1>1. phone \in Phone /\ (phone.sound # NoOne => phone.sound \in Sound)
    BY DEF PhoneIInv, PhoneOk, Phone
  <1>2. /\ phone' \in Phone /\ phone'.media = phone.media /\ phone'.source = phone.source
        /\ phone.sound = NoOne => phone'.sound = NoOne
        /\ phone.sound # NoOne => phone'.sound = [phone.sound EXCEPT !.playing = FALSE]
    <2> DEFINE p == Playing(phone, FALSE)
    <2>1. /\ p \in Phone /\ p.media = phone.media /\ p.source = phone.source
          /\ phone.sound = NoOne => p.sound = NoOne
          /\ phone.sound # NoOne => p.sound = [phone.sound EXCEPT !.playing = FALSE]
      BY <1>1, PlayingFacts
    <2>2. phone' = [p EXCEPT !.awaiting = FALSE, !.paused = TRUE, !.asleep = TRUE]
      BY DEF SleepTimerEnds
    <2> HIDE DEF p
    <2>3. phone' \in Phone /\ phone'.media = p.media /\ phone'.source = p.source /\ phone'.sound = p.sound
      BY <2>1, <2>2 DEF Phone
    <2> QED
      BY <2>1, <2>3
  <1>3. SoundIsShown' /\ SoundIsOfSource' /\ SilentOk'
    BY <1>1, <1>2 DEF PhoneIInv, PhoneOk, SoundIsShown, SoundIsOfSource, SilentOk, Sound
  <1>4. ServerOk' /\ NoSource'
    BY <1>2, StillServer DEF SleepTimerEnds, ServerStays
  <1>5. RestOk' /\ UNCHANGED loadAudio
    BY DEF PhoneIInv, RestOk, SleepTimerEnds, OthersStay, LoadsStay
  <1> QED
    BY <1>2, <1>3, <1>4, <1>5, PhoneStep

LEMMA TrackEndsKeeps == PhoneIInv /\ TrackEnds => PhoneIInv'
  <1> SUFFICES ASSUME PhoneIInv, TrackEnds PROVE PhoneIInv'
    OBVIOUS
  <1>1. phone \in Phone /\ phone.sound # NoOne /\ phone.sound \in Sound
    BY DEF PhoneIInv, PhoneOk, Phone, TrackEnds
  <1>2. /\ phone' \in Phone /\ phone'.media = phone.media /\ phone'.source = phone.source
        /\ phone'.sound = [phone.sound EXCEPT !.playing = FALSE]
    <2> DEFINE p == Playing(phone, FALSE)
    <2>1. /\ p \in Phone /\ p.media = phone.media /\ p.source = phone.source
          /\ p.sound = [phone.sound EXCEPT !.playing = FALSE]
      BY <1>1, PlayingFacts
    <2>2. \/ phone' = p \/ phone' = [p EXCEPT !.paused = TRUE]
          \/ phone' = [p EXCEPT !.awaiting = TRUE, !.paused = FALSE, !.repeating = TRUE]
      BY DEF TrackEnds
    <2> HIDE DEF p
    <2> QED
      BY <2>1, <2>2 DEF Phone
  <1>3. SoundIsShown' /\ SoundIsOfSource' /\ SilentOk'
    BY <1>1, <1>2 DEF PhoneIInv, PhoneOk, SoundIsShown, SoundIsOfSource, SilentOk, Sound
  <1>4. ServerOk' /\ NoSource'
    BY <1>2, StillServer DEF TrackEnds, ServerStays
  <1>5. RestOk' /\ UNCHANGED loadAudio
    BY DEF PhoneIInv, RestOk, TrackEnds, OthersStay, LoadsStay
  <1> QED
    BY <1>2, <1>3, <1>4, <1>5, PhoneStep

LEMMA RepeatFailsKeeps == PhoneIInv /\ RepeatFails => PhoneIInv'
  <1> SUFFICES ASSUME PhoneIInv, RepeatFails PROVE PhoneIInv'
    OBVIOUS
  <1>1. phone \in Phone
    BY DEF PhoneIInv, PhoneOk
  <1>2. /\ phone' \in Phone /\ phone'.media = phone.media /\ phone'.source = phone.source
        /\ phone'.sound = phone.sound
    BY <1>1 DEF Phone, RepeatFails
  <1>3. ServerOk' /\ NoSource'
    BY <1>2, StillServer DEF RepeatFails, ServerStays
  <1>4. RestOk' /\ UNCHANGED <<strays, loadAudio>>
    BY DEF PhoneIInv, RestOk, RepeatFails, OthersStay, LoadsStay
  <1> QED
    BY <1>2, <1>3, <1>4, FlagStep

LEMMA RepeatSeeksKeeps == PhoneIInv /\ RepeatSeeks => PhoneIInv'
  <1> SUFFICES ASSUME PhoneIInv, RepeatSeeks PROVE PhoneIInv'
    OBVIOUS
  <1>1. phone \in Phone /\ (phone.sound # NoOne => phone.sound \in Sound)
    BY DEF PhoneIInv, PhoneOk, Phone
  <1>2. /\ phone' \in Phone /\ phone'.media = phone.media /\ phone'.source = phone.source
        /\ phone.sound = NoOne => phone'.sound = NoOne
        /\ phone.sound # NoOne => phone'.sound = [phone.sound EXCEPT !.playing = TRUE]
    <2> DEFINE p == Playing(phone, TRUE)
    <2>1. /\ p \in Phone /\ p.media = phone.media /\ p.source = phone.source
          /\ phone.sound = NoOne => p.sound = NoOne
          /\ phone.sound # NoOne => p.sound = [phone.sound EXCEPT !.playing = TRUE]
      BY <1>1, PlayingFacts
    <2>2. phone' = [p EXCEPT !.repeating = FALSE]
      BY DEF RepeatSeeks
    <2> HIDE DEF p
    <2> QED
      BY <2>1, <2>2 DEF Phone
  <1>3. SoundIsShown' /\ SoundIsOfSource'
    BY <1>1, <1>2 DEF PhoneIInv, PhoneOk, SoundIsShown, SoundIsOfSource, Sound
  <1>4. SilentOk'
    <2>1. phone.sound # NoOne /\ phone.sound.from # phone.source => strays' # {}
      BY DEF RepeatSeeks
    <2>2. phone'.sound # NoOne => phone.sound # NoOne /\ phone'.sound.from = phone.sound.from
      BY <1>1, <1>2 DEF Sound
    <2> QED
      BY <1>2, <2>1, <2>2 DEF SilentOk
  <1>5. ServerOk' /\ NoSource'
    BY <1>2, StillServer DEF RepeatSeeks, ServerStays
  <1>6. RestOk' /\ UNCHANGED loadAudio
    BY DEF PhoneIInv, RestOk, RepeatSeeks, LoadsStay
  <1> QED
    BY <1>2, <1>3, <1>4, <1>5, <1>6, PhoneStep

LEMMA ResumeAfterSleepKeeps == PhoneIInv /\ ResumeAfterSleep => PhoneIInv'
  <1> SUFFICES ASSUME PhoneIInv, ResumeAfterSleep PROVE PhoneIInv'
    OBVIOUS
  <1>1. phone \in Phone /\ (phone.sound # NoOne => phone.sound \in Sound)
    BY DEF PhoneIInv, PhoneOk, Phone
  <1>2. /\ phone' \in Phone /\ phone'.media = phone.media /\ phone'.source = phone.source
        /\ phone.sound = NoOne => phone'.sound = NoOne
        /\ phone.sound # NoOne => phone'.sound = [phone.sound EXCEPT !.playing = TRUE]
    <2> DEFINE p == Playing(phone, TRUE)
    <2>1. /\ p \in Phone /\ p.media = phone.media /\ p.source = phone.source
          /\ phone.sound = NoOne => p.sound = NoOne
          /\ phone.sound # NoOne => p.sound = [phone.sound EXCEPT !.playing = TRUE]
      BY <1>1, PlayingFacts
    <2>2. phone' = [p EXCEPT !.asleep = FALSE, !.awaiting = FALSE, !.paused = FALSE]
      BY DEF ResumeAfterSleep
    <2> HIDE DEF p
    <2> QED
      BY <2>1, <2>2 DEF Phone
  <1>3. SoundIsShown' /\ SoundIsOfSource'
    BY <1>1, <1>2 DEF PhoneIInv, PhoneOk, SoundIsShown, SoundIsOfSource, Sound
  <1>4. SilentOk'
    <2>1. phone.sound # NoOne /\ phone.sound.from # phone.source => strays' # {}
      BY DEF ResumeAfterSleep
    <2>2. phone'.sound # NoOne => phone.sound # NoOne /\ phone'.sound.from = phone.sound.from
      BY <1>1, <1>2 DEF Sound
    <2> QED
      BY <1>2, <2>1, <2>2 DEF SilentOk
  <1>5. ServerOk' /\ NoSource'
    BY <1>2, StillServer DEF ResumeAfterSleep, ServerStays
  <1>6. RestOk' /\ UNCHANGED loadAudio
    BY DEF PhoneIInv, RestOk, ResumeAfterSleep, LoadsStay
  <1> QED
    BY <1>2, <1>3, <1>4, <1>5, <1>6, PhoneStep

-----------------------------------------------------------------------------
(* The phone's news *)

\* A step in which the phone may only lose its source and fall silent.
LEMMA SilencedStep ==
    ASSUME PhoneIInv, phone' \in Phone, phone'.media = phone.media, phone'.source = NoOne,
           phone.sound = NoOne => phone'.sound = NoOne,
           phone.sound # NoOne => phone'.sound = [phone.sound EXCEPT !.playing = FALSE],
           ServerOk', RestOk', UNCHANGED <<loadAudio, strays>>
    PROVE  PhoneIInv'
  <1>1. phone.sound # NoOne => phone.sound \in Sound
    BY DEF PhoneIInv, PhoneOk, Phone
  <1>2. SoundIsShown' /\ SoundIsOfSource' /\ SilentOk' /\ NoSource'
    BY <1>1 DEF PhoneIInv, PhoneOk, SoundIsShown, SoundIsOfSource, SilentOk, NoSource, Sound
  <1> QED
    BY <1>2, PhoneStep

LEMMA RevocationArrivesKeeps == PhoneIInv /\ RevocationArrives => PhoneIInv'
  <1> SUFFICES ASSUME PhoneIInv, RevocationArrives PROVE PhoneIInv'
    OBVIOUS
  <1>1. ServerOk' /\ (news' = <<>> /\ owner = Rival => Head(news) = Busy)
    BY ArriveKeeps DEF PhoneIInv, RevocationArrives, Arriving
  <1>2. ~(news' = <<>> /\ owner' = Rival)
    BY <1>1 DEF RevocationArrives, Arriving, Busy, serverVars
  <1>3. phone \in Phone /\ RestOk' /\ UNCHANGED <<loadAudio, strays>>
    BY DEF PhoneIInv, PhoneOk, RestOk, RevocationArrives, OthersStay, LoadsStay
  <1>4. CASE phone.source = NoOne
    BY <1>1, <1>2, <1>3, <1>4, FlagStep DEF RevocationArrives, NoSource
  <1>5. CASE phone.source # NoOne
    <2> DEFINE p == Silenced(phone)
    <2>1. phone' = [p EXCEPT !.revoked = TRUE, !.service = NoOne]
      BY <1>5 DEF RevocationArrives
    <2>2. /\ p \in Phone /\ p.source = NoOne /\ p.media = phone.media
          /\ phone.sound = NoOne => p.sound = NoOne
          /\ phone.sound # NoOne => p.sound = [phone.sound EXCEPT !.playing = FALSE]
      BY <1>3, SilencedFacts
    <2> HIDE DEF p
    <2>3. /\ phone' \in Phone /\ phone'.source = NoOne /\ phone'.media = phone.media
          /\ phone'.sound = p.sound
      BY <2>1, <2>2 DEF Phone
    <2> QED
      BY <1>1, <1>3, <2>2, <2>3, SilencedStep
  <1> QED
    BY <1>4, <1>5

LEMMA NewsArriveKeeps == PhoneIInv /\ NewsArrive => PhoneIInv'
  <1> SUFFICES ASSUME PhoneIInv, NewsArrive PROVE PhoneIInv'
    OBVIOUS
  <1> DEFINE state == Head(news).state
             known == phone.media = RivalClip
             beaten == IF phone.source = NoOne THEN phone ELSE [Silenced(phone) EXCEPT !.service = NoOne]
  <1>1. ServerOk' /\ (news' = <<>> /\ owner = Rival => state = "busy")
    BY ArriveKeeps DEF PhoneIInv, NewsArrive, Arriving, Busy
  <1>2. /\ phone \in Phone /\ UNCHANGED <<loadAudio, strays, owner, online>>
        /\ watches' \in 0..MaxWatches /\ RestOk'
    BY WatchAssumption DEF PhoneIInv, PhoneOk, RestOk, NewsArrive, LoadsStay, serverVars
  <1>3. CASE state # "busy"
    <2>1. /\ phone' \in Phone /\ phone'.media = phone.media /\ phone'.source = phone.source
          /\ phone'.sound = phone.sound
      BY <1>2, <1>3 DEF NewsArrive, Phone
    <2> QED
      BY <1>1, <1>2, <1>3, <2>1, FlagStep DEF NoSource
  <1>4. CASE state = "busy"
    <2>1. phone' = [beaten EXCEPT !.conflict = TRUE, !.paused = @ /\ ~known]
      BY <1>4 DEF NewsArrive
    <2>2. CASE phone.source = NoOne
      <3>1. /\ phone' \in Phone /\ phone'.media = phone.media /\ phone'.source = phone.source
            /\ phone'.sound = phone.sound
        BY <1>2, <2>1, <2>2 DEF Phone
      <3> QED
        BY <1>1, <1>2, <2>2, <3>1, FlagStep DEF NoSource
    <2>3. CASE phone.source # NoOne
      <3> DEFINE p == Silenced(phone)
      <3>1. phone' = [[p EXCEPT !.service = NoOne] EXCEPT !.conflict = TRUE, !.paused = @ /\ ~known]
        BY <2>1, <2>3
      <3>2. /\ p \in Phone /\ p.source = NoOne /\ p.media = phone.media
            /\ phone.sound = NoOne => p.sound = NoOne
            /\ phone.sound # NoOne => p.sound = [phone.sound EXCEPT !.playing = FALSE]
        BY <1>2, SilencedFacts
      <3> HIDE DEF p
      <3>3. /\ phone' \in Phone /\ phone'.source = NoOne /\ phone'.media = phone.media
            /\ phone'.sound = p.sound
        BY <3>1, <3>2 DEF Phone
      <3> QED
        BY <1>1, <1>2, <3>2, <3>3, SilencedStep
    <2> QED
      BY <2>2, <2>3
  <1> QED
    BY <1>3, <1>4

\* The holder's track comes in place of the phone's, without its sound.
LEMMA ShownStep ==
    ASSUME PhoneIInv, phone' \in Phone, phone'.sound = NoOne, phone'.source \in {phone.source, NoOne},
           loadAudio' = Superseded, UNCHANGED <<serverVars, wireVars>>, RestOk'
    PROVE  PhoneIInv'
  <1>1. ServerOk' /\ NoSource'
    BY StillServer
  <1>2. LoadsOk'
    BY SupersededFacts DEF PhoneIInv, LoadsOk
  <1> QED
    BY <1>1, <1>2 DEF PhoneIInv, PhoneOk, SoundIsShown, SoundIsOfSource, SilentOk

LEMMA FetchesKeep == PhoneIInv /\ (FetchedArrives \/ FetchFails) => PhoneIInv'
  <1> SUFFICES ASSUME PhoneIInv, FetchedArrives \/ FetchFails PROVE PhoneIInv'
    OBVIOUS
  <1>1. phone \in Phone /\ RestOk' /\ UNCHANGED <<strays, serverVars, wireVars>>
    BY WatchAssumption DEF PhoneIInv, PhoneOk, RestOk, FetchedArrives, FetchFails, ServerStays
  <1>2. CASE FetchedArrives
    <2>1. phone' \in Phone /\ phone'.sound = NoOne /\ phone'.source = phone.source
      BY <1>1, <1>2, ServerAssumption DEF Phone, FetchedArrives
    <2> QED
      BY <1>1, <1>2, <2>1, ShownStep DEF FetchedArrives
  <1>3. CASE FetchFails
    <2>1. /\ phone' \in Phone /\ phone'.media = phone.media /\ phone'.source = phone.source
          /\ phone'.sound = phone.sound
      BY <1>1, <1>3 DEF Phone, FetchFails
    <2>2. ServerOk' /\ NoSource'
      BY <1>1, <2>1, StillServer
    <2> QED
      BY <1>1, <1>3, <2>1, <2>2, FlagStep DEF FetchFails, LoadsStay
  <1> QED
    BY <1>2, <1>3

LEMMA PhoneSocketKeeps == PhoneIInv /\ (SocketDrops \/ SocketReady) => PhoneIInv'
  <1> SUFFICES ASSUME PhoneIInv, SocketDrops \/ SocketReady PROVE PhoneIInv'
    OBVIOUS
  <1>1. RestOk' /\ LoadsOk' /\ UNCHANGED <<phone, strays>>
    BY DEF PhoneIInv, RestOk, LoadsOk, SocketDrops, SocketReady, OthersStay, LoadsStay
  <1>2. phone.service \in Ticket \union {NoOne}
    BY DEF PhoneIInv, PhoneOk, Phone
  <1>3. CASE SocketDrops
    <2>1. ServerOk' /\ ~online'
      BY <1>3, CloseKeeps DEF PhoneIInv, SocketDrops
    <2> QED
      BY <1>1, <2>1, PhoneStays DEF NoSource
  <1>4. CASE SocketReady
    <2>1. ServerOk' /\ news' # <<>>
      BY <1>2, <1>4, ReadyKeeps DEF PhoneIInv, SocketReady
    <2> QED
      BY <1>1, <2>1, PhoneStays DEF NoSource
  <1> QED
    BY <1>3, <1>4

LEMMA HeartbeatFailsKeeps == PhoneIInv /\ HeartbeatFails => PhoneIInv'
  <1> SUFFICES ASSUME PhoneIInv, HeartbeatFails PROVE PhoneIInv'
    OBVIOUS
  <1> DEFINE p == Silenced(phone)
  <1>1. PICK conflict \in BOOLEAN : phone' = [p EXCEPT !.conflict = conflict]
    BY DEF HeartbeatFails
  <1>2. phone \in Phone /\ RestOk' /\ UNCHANGED <<loadAudio, strays>> /\ ServerStays
    BY DEF PhoneIInv, PhoneOk, RestOk, HeartbeatFails, OthersStay, LoadsStay
  <1>3. /\ p \in Phone /\ p.source = NoOne /\ p.media = phone.media
        /\ phone.sound = NoOne => p.sound = NoOne
        /\ phone.sound # NoOne => p.sound = [phone.sound EXCEPT !.playing = FALSE]
    BY <1>2, SilencedFacts
  <1> HIDE DEF p
  <1>4. /\ phone' \in Phone /\ phone'.source = NoOne /\ phone'.media = phone.media
        /\ phone'.sound = p.sound
    BY <1>1, <1>3 DEF Phone
  <1>5. ServerOk'
    BY <1>2, <1>4, StillServer DEF ServerStays
  <1> QED
    BY <1>2, <1>3, <1>4, <1>5, SilencedStep

LEMMA PollAnswersKeeps == PhoneIInv /\ PollAnswers => PhoneIInv'
  <1> SUFFICES ASSUME PhoneIInv, PollAnswers PROVE PhoneIInv'
    OBVIOUS
  <1>1. phone \in Phone /\ RestOk' /\ UNCHANGED <<strays, serverVars, wireVars>>
    BY DEF PhoneIInv, PhoneOk, RestOk, PollAnswers, OthersStay, ServerStays
  <1>2. CASE owner = Rival /\ phone.media # RivalClip
    <2>1. phone' \in Phone /\ phone'.sound = NoOne /\ phone'.source = NoOne /\ loadAudio' = Superseded
      BY <1>1, <1>2, ServerAssumption DEF Phone, PollAnswers
    <2> QED
      BY <1>1, <2>1, ShownStep
  <1>3. CASE ~(owner = Rival /\ phone.media # RivalClip)
    <2>1. /\ phone' \in Phone /\ phone'.media = phone.media /\ phone'.source = phone.source
          /\ phone'.sound = phone.sound /\ LoadsStay
      BY <1>1, <1>3 DEF Phone, PollAnswers
    <2>2. ServerOk' /\ NoSource'
      BY <1>1, <2>1, StillServer
    <2> QED
      BY <1>1, <2>1, <2>2, FlagStep DEF LoadsStay
  <1> QED
    BY <1>2, <1>3

-----------------------------------------------------------------------------
(* The phone's theorems *)

LEMMA PhoneIInvInit == PhoneInit => PhoneIInv
  <1> SUFFICES ASSUME PhoneInit PROVE PhoneIInv
    OBVIOUS
  <1>1. ServerOk
    BY ServerIInvInit DEF PhoneInit
  <1>2. phone \in Phone /\ phone.sound = NoOne /\ phone.source = NoOne
    BY DEF PhoneInit, Phone
  <1>3. LoadsOk /\ RestOk
    BY WatchAssumption DEF PhoneInit, LoadsOk, RestOk
  <1> QED
    BY <1>1, <1>2, <1>3 DEF PhoneIInv, PhoneOk, SoundIsShown, SoundIsOfSource, SilentOk, NoSource

LEMMA PhoneIInvNext ==
    PhoneIInv /\ [PhoneNext]_<<serverVars, wireVars, phoneVars>> => PhoneIInv'
  <1> SUFFICES ASSUME PhoneIInv, [PhoneNext]_<<serverVars, wireVars, phoneVars>> PROVE PhoneIInv'
    OBVIOUS
  <1>1. CASE UNCHANGED <<serverVars, wireVars, phoneVars>>
    <2>1. RestOk' /\ LoadsOk' /\ UNCHANGED <<phone, strays>>
      BY <1>1 DEF PhoneIInv, RestOk, LoadsOk, phoneVars
    <2>2. ServerOk' /\ NoSource'
      BY <1>1, <2>1, StillServer
    <2> QED
      BY <2>1, <2>2, PhoneStays
  <1> QED
    BY <1>1, PhoneWorldKeeps, ServeAudioKeeps, ServeAdminKeeps, AudioPreparesKeeps, AudioReleasesKeeps,
       AudioOpensKeeps, AudioSeeksKeeps, AudioFailsKeeps, PlayTrackKeeps, TogglePlaybackKeeps,
       StatusUpdateKeeps, StopTrackKeeps, TakeOverAsksKeeps, TakeOverStartsKeeps,
       SleepTimerEndsKeeps, ResumeAfterSleepKeeps, RevocationArrivesKeeps, NewsArriveKeeps,
       FetchesKeep, TrackEndsKeeps, RepeatSeeksKeeps,
       RepeatFailsKeeps, PhoneSocketKeeps, HeartbeatFailsKeeps, PollAnswersKeeps DEF PhoneNext

\* The invariant of the phone holds in every state, for any number of loads at a
\* time.
THEOREM PhoneInvariant == PhoneSpec => []PhoneIInv
  <1> QED
    BY PhoneIInvInit, PhoneIInvNext, PTL DEF PhoneSpec

\* What sounds on the phone is the track that is shown, from the source that was
\* acquired for it, whichever loads were superseded while they waited
\* (player-context.jsx).
THEOREM SoundsAsShown == PhoneSpec => []PhoneInv
  <1>1. PhoneIInv => PhoneInv
    BY DEF PhoneIInv, ServerOk, PhoneOk, LoadsOk, RestOk, PhoneInv, PhoneTypeOK
  <1> QED
    BY <1>1, PhoneInvariant, PTL

\* A phone that has heard all the news has no source while another device holds
\* the lease, and is silent, unless one of the three steps that ask for no source
\* has started the sound again: the end of a load's seek, of a repeat's seek, or
\* the modal of the sleep timer (player-context.jsx:410, 926-930, 771).
THEOREM RivalIsHeardAlone == PhoneSpec => []RivalSilencesPhone
  <1>1. PhoneIInv => RivalSilencesPhone
    BY DEF PhoneIInv, NoSource, SilentOk, RivalSilencesPhone
  <1> QED
    BY <1>1, PhoneInvariant, PTL

-----------------------------------------------------------------------------
(* The desktop: the invariant *)

\* The socket is bound to the session that has the lease.
EntryOk ==
    /\ ~online => entry = Unbound
    /\ entry.bound # NoOne => owner = entry.bound

TasksOk ==
    /\ beat \in [session : Ticket \union {NoOne},
                 at : {"sent", "fine", "busy", "available", "lost", "error"}] \union {NoOne}
    /\ take \in [media : Clip, at : {"sent", "done"}] \union {NoOne}
    /\ fetch \in [Caller -> Fetch \union {NoOne}]
    /\ slips \subseteq {"stop", "toggle", "unfetched", "beat"}

\* What a task has acquired is a session of its medium.
Acquired(j, clips) ==
    j.at \in {"made", "ready", "open"} => j.session # NoOne /\ clips[j.session] = j.media

TypesOk ==
    /\ desk \in Desk
    /\ engine \in [session : Ticket \union {NoOne}, playing : BOOLEAN]
    /\ engine.playing => engine.session # NoOne
    /\ load \in [Slot -> LoadTask \union {NoOne}]
    /\ \A s \in Slot : load[s] # NoOne => Acquired(load[s], clipOf)

\* One task at most is not superseded, and the desktop waits for it in silence.
FreshOk ==
    slips = {} => \A s \in Slot : load[s] # NoOne /\ load[s].fresh =>
        /\ \A r \in Slot \ {s} : load[r] # NoOne => ~load[r].fresh
        /\ desk.status = "loading" /\ ~desk.elsewhere /\ desk.media = load[s].media
        /\ desk.session = NoOne /\ ~engine.playing

\* What plays plays here and now ...
PlaysOk ==
    engine.playing /\ slips = {} =>
        /\ engine.session = desk.session /\ desk.media # NoOne
        /\ ~desk.elsewhere /\ desk.status \notin {"loading", "failed"}

\* ... and what could be resumed is the medium that is shown.
KeptOk ==
    slips = {} /\ engine.session # NoOne /\ ~desk.elsewhere /\ desk.media # NoOne
        /\ desk.status \notin {"loading", "failed"} =>
        engine.session = desk.session /\ clipOf[engine.session] = desk.media

DesktopIInv == ServerOk /\ EntryOk /\ TasksOk /\ TypesOk /\ FreshOk /\ PlaysOk /\ KeptOk

-----------------------------------------------------------------------------
(* The server and the desktop *)

LEMMA TellEntry ==
    ASSUME ServerOk, EntryOk, NEW holder \in Owners, TellLease(holder)
    PROVE  EntryOk'
  BY DEF TellLease, EntryOk, Unbound, ServerOk, ServerTypeOK

LEMMA EntryStays ==
    ASSUME EntryOk, UNCHANGED <<owner, entry, online>>
    PROVE  EntryOk'
  BY DEF EntryOk

LEMMA ReleaseEntry ==
    ASSUME ServerOk, EntryOk, NEW t \in Ticket \union {NoOne}, Release(t)
    PROVE  ServerOk' /\ EntryOk' /\ clipOf' = clipOf
  BY ReleaseKeeps, TellEntry, EntryStays DEF Release, wireVars, Owners

LEMMA ServerStill ==
    ASSUME ServerOk, EntryOk, UNCHANGED <<serverVars, wireVars>>
    PROVE  ServerOk' /\ EntryOk' /\ clipOf' = clipOf
  BY DEF ServerOk, ServerTypeOK, NewsOk, EntryOk, serverVars, wireVars

LEMMA NewsTaken ==
    ASSUME ServerOk, EntryOk, news # <<>>, news' = Tail(news), UNCHANGED <<serverVars, entry, online>>
    PROVE  ServerOk' /\ EntryOk' /\ clipOf' = clipOf
  BY ArriveKeeps, EntryStays DEF serverVars

-----------------------------------------------------------------------------
(* How the desktop changes *)

\* The desktop, its pipeline and its tasks are as before, but for the takeover
\* that is waited for.
LEMMA QuietStep ==
    ASSUME DesktopIInv, ServerOk', EntryOk', TasksOk', clipOf' = clipOf, UNCHANGED <<engine, load, slips>>,
           NEW pending \in BOOLEAN, desk' = [desk EXCEPT !.pending = pending]
    PROVE  DesktopIInv'
  <1>1. /\ desk' \in Desk /\ desk'.media = desk.media /\ desk'.status = desk.status
        /\ desk'.elsewhere = desk.elsewhere /\ desk'.session = desk.session
    BY DEF DesktopIInv, TypesOk, Desk
  <1> QED
    BY <1>1 DEF DesktopIInv, TypesOk, FreshOk, PlaysOk, KeptOk

LEMMA IdleStep ==
    ASSUME DesktopIInv, ServerOk', EntryOk', TasksOk', clipOf' = clipOf, UNCHANGED <<desk, engine, load, slips>>
    PROVE  DesktopIInv'
  BY DEF DesktopIInv, TypesOk, FreshOk, PlaysOk, KeptOk

\* A task goes on with j, or ends.
LEMMA TaskStep ==
    ASSUME DesktopIInv, ServerOk', EntryOk', TasksOk', UNCHANGED <<desk, engine, slips>>,
           \A t \in Ticket : clipOf[t] # NoOne => clipOf'[t] = clipOf[t],
           NEW s \in Slot, load[s] # NoOne, NEW j \in LoadTask, load' = [load EXCEPT ![s] = j],
           j.fresh = load[s].fresh, j.media = load[s].media, Acquired(j, clipOf')
    PROVE  DesktopIInv'
  <1>1. \A r \in Slot : load'[r] = IF r = s THEN j ELSE load[r]
    BY DEF DesktopIInv, TypesOk
  <1>2. \A r \in Slot : load[r] # NoOne => Acquired(load[r], clipOf')
    <2> SUFFICES ASSUME NEW r \in Slot, load[r] # NoOne, load[r].at \in {"made", "ready", "open"}
                 PROVE  load[r].session # NoOne /\ clipOf'[load[r].session] = load[r].media
      BY DEF Acquired
    <2>1. load[r].session # NoOne /\ clipOf[load[r].session] = load[r].media /\ load[r] \in LoadTask
      BY DEF DesktopIInv, TypesOk, Acquired
    <2> QED
      BY <2>1, ServerAssumption DEF LoadTask
  <1>3. TypesOk'
    BY <1>1, <1>2 DEF DesktopIInv, TypesOk
  <1>4. FreshOk'
    BY <1>1 DEF DesktopIInv, FreshOk
  <1>5. PlaysOk'
    BY DEF DesktopIInv, PlaysOk
  <1>6. KeptOk'
    <2>1. desk.media # NoOne => desk.media \in Clip
      BY DEF DesktopIInv, TypesOk, Desk
    <2> QED
      BY <2>1 DEF DesktopIInv, TypesOk, KeptOk
  <1> QED
    BY <1>3, <1>4, <1>5, <1>6 DEF DesktopIInv

\* What ends is a task only: nothing that is fresh begins.
Ended == load' \in [Slot -> LoadTask \union {NoOne}] /\
    \A s \in Slot : load'[s] # NoOne =>
        /\ load[s] # NoOne /\ load'[s].at = load[s].at /\ load'[s].session = load[s].session
        /\ load'[s].media = load[s].media /\ (load'[s].fresh => load[s].fresh)

LEMMA EndedFacts ==
    ASSUME DesktopIInv
    PROVE  /\ \A s \in Slot : load' = [load EXCEPT ![s] = NoOne] => Ended /\ load'[s] = NoOne
           /\ load' = load => Ended
           /\ load' = Late(load) => Ended /\ \A r \in Slot : load'[r] # NoOne => ~load'[r].fresh
  <1>1. load \in [Slot -> LoadTask \union {NoOne}]
    BY DEF DesktopIInv, TypesOk
  <1>2. \A s \in Slot : load' = [load EXCEPT ![s] = NoOne] => Ended /\ load'[s] = NoOne
    BY <1>1 DEF Ended
  <1>3. load' = load => Ended
    BY <1>1 DEF Ended
  <1>4. ASSUME load' = Late(load) PROVE Ended /\ \A r \in Slot : load'[r] # NoOne => ~load'[r].fresh
    <2>1. \A r \in Slot : load'[r] = IF load[r] = NoOne THEN NoOne ELSE [load[r] EXCEPT !.fresh = FALSE]
      BY <1>4 DEF Late
    <2>2. \A r \in Slot : load[r] # NoOne =>
              /\ load'[r] \in LoadTask /\ ~load'[r].fresh /\ load'[r].at = load[r].at
              /\ load'[r].session = load[r].session /\ load'[r].media = load[r].media
      BY <1>1, <2>1 DEF LoadTask
    <2>3. load' \in [Slot -> LoadTask \union {NoOne}]
      BY <1>4, <2>1, <2>2 DEF Late
    <2> QED
      BY <2>1, <2>2, <2>3 DEF Ended
  <1> QED
    BY <1>2, <1>3, <1>4

LEMMA EndedStep ==
    ASSUME DesktopIInv, ServerOk', EntryOk', TasksOk', clipOf' = clipOf, Ended, slips \subseteq slips',
           desk' \in Desk, engine' \in [session : Ticket \union {NoOne}, playing : BOOLEAN],
           engine'.playing => engine'.session # NoOne,
           slips' = {} => \/ \A s \in Slot : load'[s] # NoOne => ~load'[s].fresh
                          \/ /\ desk'.status = desk.status /\ desk'.elsewhere = desk.elsewhere
                             /\ desk'.media = desk.media /\ desk'.session \in {desk.session, NoOne}
                             /\ engine'.playing => engine.playing,
           PlaysOk', KeptOk'
    PROVE  DesktopIInv'
  <1>1. TypesOk'
    BY DEF DesktopIInv, TypesOk, Ended, Acquired
  <1>2. FreshOk'
    <2> SUFFICES ASSUME slips' = {}, NEW s \in Slot, load'[s] # NoOne, load'[s].fresh
                 PROVE  /\ \A r \in Slot \ {s} : load'[r] # NoOne => ~load'[r].fresh
                        /\ desk'.status = "loading" /\ ~desk'.elsewhere /\ desk'.media = load'[s].media
                        /\ desk'.session = NoOne /\ ~engine'.playing
      BY DEF FreshOk
    <2>1. slips = {} /\ load[s] # NoOne /\ load[s].fresh /\ load'[s].media = load[s].media
      BY DEF Ended
    <2>2. /\ \A r \in Slot \ {s} : load[r] # NoOne => ~load[r].fresh
          /\ desk.status = "loading" /\ ~desk.elsewhere /\ desk.media = load[s].media
          /\ desk.session = NoOne /\ ~engine.playing
      BY <2>1 DEF DesktopIInv, FreshOk
    <2> QED
      BY <2>1, <2>2 DEF Ended
  <1> QED
    BY <1>1, <1>2 DEF DesktopIInv

-----------------------------------------------------------------------------
(* The user *)

LEMMA DesktopWorldKeeps ==
    DesktopIInv /\ (LeaseEnds \/ RivalTakes) /\ UNCHANGED <<desk, engine, taskVars, slips>> => DesktopIInv'
  <1> SUFFICES ASSUME DesktopIInv, LeaseEnds \/ RivalTakes, UNCHANGED <<desk, engine, taskVars, slips>>
               PROVE  DesktopIInv'
    OBVIOUS
  <1>1. ServerOk' /\ clipOf' = clipOf
    BY WorldKeeps DEF DesktopIInv
  <1>2. EntryOk'
    BY TellEntry DEF DesktopIInv, LeaseEnds, RivalTakes, Owners
  <1>3. TasksOk' /\ UNCHANGED <<desk, engine, load, slips>>
    BY DEF DesktopIInv, TasksOk, taskVars
  <1> QED
    BY <1>1, <1>2, <1>3, IdleStep

\* A new task is the only one that is not superseded.
LEMMA LoadingKeeps ==
    ASSUME DesktopIInv, NEW m \in Clip, NEW takeover \in BOOLEAN, Loading(m, takeover),
           UNCHANGED <<serverVars, wireVars, slips>>, TasksOk'
    PROVE  DesktopIInv'
  <1>1. PICK s \in Slot :
            /\ load[s] = NoOne
            /\ load' = [Late(load) EXCEPT ![s] =
                  [media |-> m, fresh |-> TRUE, takeover |-> takeover, session |-> desk.session,
                   at |-> IF desk.session = NoOne THEN "sent" ELSE "release"]]
            /\ desk' = [desk EXCEPT !.media = m, !.status = "loading", !.elsewhere = FALSE, !.session = NoOne]
            /\ engine' = [engine EXCEPT !.playing = FALSE]
    BY DEF Loading
  <1>2. desk \in Desk /\ load \in [Slot -> LoadTask \union {NoOne}] /\ Late(load) \in [Slot -> LoadTask \union {NoOne}]
    BY DEF DesktopIInv, TypesOk, Late, LoadTask
  <1>3. /\ desk' \in Desk /\ desk'.media = m /\ desk'.status = "loading" /\ ~desk'.elsewhere /\ desk'.session = NoOne
    BY <1>1, <1>2 DEF Desk
  <1>4. engine' \in [session : Ticket \union {NoOne}, playing : BOOLEAN] /\ ~engine'.playing
    BY <1>1 DEF DesktopIInv, TypesOk
  <1>5. /\ load'[s] \in LoadTask /\ load'[s].fresh /\ load'[s].media = m /\ load'[s].at \in {"sent", "release"}
    BY <1>1, <1>2 DEF LoadTask, Desk
  <1>6. \A r \in Slot \ {s} : load'[r] = Late(load)[r]
    BY <1>1, <1>2
  <1>7. \A r \in Slot \ {s} : load'[r] # NoOne =>
            /\ load[r] # NoOne /\ ~load'[r].fresh /\ load'[r].at = load[r].at
            /\ load'[r].session = load[r].session /\ load'[r].media = load[r].media
    BY <1>2, <1>6 DEF Late, LoadTask
  <1>8. load' \in [Slot -> LoadTask \union {NoOne}]
    BY <1>1, <1>2, <1>5, <1>6
  <1>9. ServerOk' /\ EntryOk' /\ clipOf' = clipOf
    BY ServerStill DEF DesktopIInv
  <1>10. TypesOk'
    BY <1>3, <1>4, <1>5, <1>7, <1>8, <1>9 DEF DesktopIInv, TypesOk, Acquired
  <1>11. FreshOk'
    BY <1>3, <1>4, <1>5, <1>7 DEF FreshOk
  <1>12. PlaysOk' /\ KeptOk'
    BY <1>3, <1>4 DEF PlaysOk, KeptOk
  <1> QED
    BY <1>9, <1>10, <1>11, <1>12 DEF DesktopIInv

LEMMA PlayMediaAtKeeps == ASSUME NEW m \in Clip PROVE DesktopIInv /\ PlayMediaAt(m) => DesktopIInv'
  <1> SUFFICES ASSUME DesktopIInv, PlayMediaAt(m) PROVE DesktopIInv'
    OBVIOUS
  <1>1. TasksOk'
    BY DEF DesktopIInv, TasksOk, PlayMediaAt
  <1> QED
    BY <1>1, LoadingKeeps DEF PlayMediaAt

\* What goes on to play is what was kept.
LEMMA SetPlayingKeeps == DesktopIInv /\ SetPlaying => DesktopIInv'
  <1> SUFFICES ASSUME DesktopIInv, SetPlaying PROVE DesktopIInv'
    OBVIOUS
  <1>1. ServerOk' /\ EntryOk' /\ clipOf' = clipOf
    BY ServerStill DEF DesktopIInv, SetPlaying
  <1>2. TasksOk' /\ load' = load /\ slips \subseteq slips'
    BY DEF DesktopIInv, TasksOk, SetPlaying, taskVars
  <1>3. desk \in Desk /\ engine \in [session : Ticket \union {NoOne}, playing : BOOLEAN]
    BY DEF DesktopIInv, TypesOk
  <1>4. slips' = {} => slips = {} /\ desk.status \notin {"loading", "failed"}
    BY DEF SetPlaying
  <1>5. /\ desk' \in Desk /\ desk'.media = desk.media /\ desk'.elsewhere = desk.elsewhere
        /\ desk'.session = desk.session
        /\ desk.status \notin {"loading", "failed"} => desk'.status \notin {"loading", "failed"}
    BY <1>3 DEF SetPlaying, Desk
  <1>6. /\ engine' \in [session : Ticket \union {NoOne}, playing : BOOLEAN] /\ engine'.session = engine.session
        /\ engine.session # NoOne /\ ~desk.elsewhere /\ desk.media # NoOne
    BY <1>3 DEF SetPlaying
  <1>7. TypesOk'
    BY <1>1, <1>2, <1>5, <1>6 DEF DesktopIInv, TypesOk
  <1>8. FreshOk'
    BY <1>2, <1>4 DEF DesktopIInv, FreshOk
  <1>9. PlaysOk' /\ KeptOk'
    BY <1>1, <1>4, <1>5, <1>6 DEF DesktopIInv, PlaysOk, KeptOk
  <1> QED
    BY <1>1, <1>2, <1>7, <1>8, <1>9 DEF DesktopIInv

LEMMA StopPlaybackKeeps == DesktopIInv /\ StopPlayback => DesktopIInv'
  <1> SUFFICES ASSUME DesktopIInv, StopPlayback PROVE DesktopIInv'
    OBVIOUS
  <1>1. desk \in Desk /\ desk.session \in Ticket \union {NoOne}
    BY DEF DesktopIInv, TypesOk, Desk
  <1>2. ServerOk' /\ EntryOk' /\ clipOf' = clipOf
    BY <1>1, ReleaseEntry DEF DesktopIInv, StopPlayback
  <1>3. TasksOk' /\ load' = load /\ slips \subseteq slips'
    BY DEF DesktopIInv, TasksOk, StopPlayback, taskVars
  <1>4. desk' \in Desk /\ desk'.media = NoOne
    BY <1>1 DEF StopPlayback, Desk
  <1>5. engine' \in [session : Ticket \union {NoOne}, playing : BOOLEAN] /\ ~engine'.playing
    BY DEF StopPlayback, Silent
  <1>6. slips' = {} => \A s \in Slot : load'[s] # NoOne => ~load'[s].fresh
    BY <1>3 DEF StopPlayback
  <1>7. Ended
    BY <1>3 DEF Ended, DesktopIInv, TypesOk
  <1>8. PlaysOk' /\ KeptOk'
    BY <1>4, <1>5 DEF PlaysOk, KeptOk
  <1> QED
    BY <1>2, <1>3, <1>4, <1>5, <1>6, <1>7, <1>8, EndedStep

LEMMA DesktopTakeOverKeeps ==
    DesktopIInv /\ (TakeOver \/ TakeOverServed \/ TakeOverGoesOn) => DesktopIInv'
  <1> SUFFICES ASSUME DesktopIInv, TakeOver \/ TakeOverServed \/ TakeOverGoesOn PROVE DesktopIInv'
    OBVIOUS
  <1>1. desk \in Desk /\ take \in [media : Clip, at : {"sent", "done"}] \union {NoOne}
    BY DEF DesktopIInv, TypesOk, TasksOk
  <1>2. CASE TakeOver
    <2>1. take' \in [media : Clip, at : {"sent", "done"}] \union {NoOne}
      BY <1>1, <1>2 DEF TakeOver, Desk
    <2>2. TasksOk' /\ UNCHANGED <<engine, load, slips>>
      BY <1>2, <2>1 DEF TakeOver, DesktopIInv, TasksOk
    <2>3. desk' = [desk EXCEPT !.pending = TRUE]
      BY <1>2 DEF TakeOver
    <2>4. ServerOk' /\ EntryOk' /\ clipOf' = clipOf
      BY <1>2, ServerStill DEF TakeOver, DesktopIInv
    <2> QED
      BY <2>2, <2>3, <2>4, QuietStep
  <1>3. CASE TakeOverServed
    <2>1. TasksOk' /\ UNCHANGED <<desk, engine, load, slips>>
      BY <1>3 DEF TakeOverServed, DesktopIInv, TasksOk
    <2>2. ServerOk' /\ EntryOk' /\ clipOf' = clipOf
      BY <1>3, ForceKeeps, TellEntry, EntryStays DEF TakeOverServed, ForceRelease, wireVars, Owners, DesktopIInv
    <2> QED
      BY <2>1, <2>2, IdleStep
  <1>4. CASE TakeOverGoesOn
    <2>1. TasksOk' /\ take \in [media : Clip, at : {"sent", "done"}]
      BY <1>1, <1>4 DEF TakeOverGoesOn, DesktopIInv, TasksOk
    <2>2. CASE Loading(take.media, TRUE)
      <3>1. PICK m \in Clip : m = take.media
        BY <2>1
      <3> QED
        BY <1>4, <2>1, <2>2, <3>1, LoadingKeeps DEF TakeOverGoesOn
    <2>3. CASE desk' = [desk EXCEPT !.pending = FALSE] /\ UNCHANGED <<engine, load>>
      <3>1. ServerOk' /\ EntryOk' /\ clipOf' = clipOf /\ slips' = slips
        BY <1>4, ServerStill DEF TakeOverGoesOn, DesktopIInv
      <3> QED
        BY <2>1, <2>3, <3>1, QuietStep
    <2> QED
      BY <1>4, <2>2, <2>3 DEF TakeOverGoesOn
  <1> QED
    BY <1>2, <1>3, <1>4

-----------------------------------------------------------------------------
(* The tasks of play_media_at *)

LEMMA GoesFacts ==
    ASSUME DesktopIInv, NEW s \in Slot, load[s] # NoOne,
           NEW step \in {"release", "sent", "made", "refused", "failed", "ready", "open"},
           NEW t \in Ticket \union {NoOne}, Goes(s, step, t)
    PROVE  \E j \in LoadTask : /\ load' = [load EXCEPT ![s] = j] /\ j.at = step /\ j.session = t
                               /\ j.fresh = load[s].fresh /\ j.media = load[s].media
  <1>1. load[s] \in LoadTask
    BY DEF DesktopIInv, TypesOk
  <1>2. PICK j \in LoadTask : j = [load[s] EXCEPT !.at = step, !.session = t]
    BY <1>1 DEF LoadTask
  <1>3. load' = [load EXCEPT ![s] = j]
    BY <1>2 DEF Goes
  <1>4. j.at = step /\ j.session = t /\ j.fresh = load[s].fresh /\ j.media = load[s].media
    BY <1>1, <1>2 DEF LoadTask
  <1> QED
    BY <1>3, <1>4

LEMMA TaskFacts ==
    ASSUME DesktopIInv, NEW s \in Slot, load[s] # NoOne
    PROVE  /\ load[s] \in LoadTask /\ load[s].session \in Ticket \union {NoOne} /\ load[s].media \in Clip
           /\ Acquired(load[s], clipOf)
  BY DEF DesktopIInv, TypesOk, LoadTask

LEMMA LoadMovesKeep ==
    ASSUME NEW s \in Slot
    PROVE  DesktopIInv /\ (LoadReleases(s) \/ LoadServed(s) \/ LoadAnswered(s)) => DesktopIInv'
  <1> SUFFICES ASSUME DesktopIInv, LoadReleases(s) \/ LoadServed(s) \/ LoadAnswered(s) PROVE DesktopIInv'
    OBVIOUS
  <1>1. UNCHANGED <<desk, engine, beat, take, fetch, slips>> /\ load[s] # NoOne
    BY DEF LoadReleases, LoadServed, LoadAnswered, At
  <1>2. TasksOk'
    BY <1>1 DEF DesktopIInv, TasksOk
  <1>3. load[s] \in LoadTask /\ load[s].session \in Ticket \union {NoOne} /\ load[s].media \in Clip
        /\ Acquired(load[s], clipOf)
    BY <1>1, TaskFacts
  <1>4. CASE LoadReleases(s)
    <2>1. PICK j \in LoadTask : /\ load' = [load EXCEPT ![s] = j] /\ j.at = "sent"
                                /\ j.fresh = load[s].fresh /\ j.media = load[s].media
      BY <1>1, <1>4, GoesFacts DEF LoadReleases
    <2>2. ServerOk' /\ EntryOk' /\ clipOf' = clipOf
      BY <1>3, <1>4, ReleaseEntry DEF LoadReleases, DesktopIInv
    <2>3. Acquired(j, clipOf')
      BY <2>1 DEF Acquired
    <2> QED
      BY <1>1, <1>2, <2>1, <2>2, <2>3, TaskStep
  <1>5. ASSUME NEW t \in Ticket, Acquire(t, load[s].media), Goes(s, "made", t) PROVE DesktopIInv'
    <2>1. PICK j \in LoadTask : /\ load' = [load EXCEPT ![s] = j] /\ j.at = "made" /\ j.session = t
                                /\ j.fresh = load[s].fresh /\ j.media = load[s].media
      BY <1>1, <1>5, GoesFacts
    <2>2. PICK m \in Clip : m = load[s].media
      BY <1>3
    <2>3. /\ ServerOk' /\ clipOf'[t] = m /\ clipOf[t] = NoOne
          /\ \A u \in Ticket \ {t} : clipOf'[u] = clipOf[u]
      BY <1>5, <2>2, AcquireKeeps DEF DesktopIInv
    <2>4. EntryOk'
      BY <1>5, TellEntry DEF Acquire, Owners, DesktopIInv
    <2>5. Acquired(j, clipOf')
      BY <2>1, <2>2, <2>3, ServerAssumption DEF Acquired
    <2>6. \A u \in Ticket : clipOf[u] # NoOne => clipOf'[u] = clipOf[u]
      BY <2>3
    <2> QED
      BY <1>1, <1>2, <2>1, <2>3, <2>4, <2>5, <2>6, TaskStep
  <1>6. ASSUME UNCHANGED <<serverVars, wireVars>>, NEW step \in {"refused", "failed"}, Goes(s, step, NoOne)
        PROVE  DesktopIInv'
    <2>1. PICK j \in LoadTask : /\ load' = [load EXCEPT ![s] = j] /\ j.at = step
                                /\ j.fresh = load[s].fresh /\ j.media = load[s].media
      BY <1>1, <1>6, GoesFacts
    <2>2. ServerOk' /\ EntryOk' /\ clipOf' = clipOf
      BY <1>6, ServerStill DEF DesktopIInv
    <2>3. Acquired(j, clipOf')
      BY <2>1 DEF Acquired
    <2> QED
      BY <1>1, <1>2, <2>1, <2>2, <2>3, TaskStep
  <1>7. CASE LoadAnswered(s)
    <2>1. PICK j \in LoadTask : /\ load' = [load EXCEPT ![s] = j] /\ j.at = "ready" /\ j.session = load[s].session
                                /\ j.fresh = load[s].fresh /\ j.media = load[s].media
      BY <1>1, <1>3, <1>7, GoesFacts DEF LoadAnswered
    <2>2. ServerOk' /\ EntryOk' /\ clipOf' = clipOf
      BY <1>7, ServerStill DEF LoadAnswered, DesktopIInv
    <2>3. Acquired(j, clipOf')
      BY <1>3, <1>7, <2>1, <2>2 DEF Acquired, LoadAnswered, At
    <2> QED
      BY <1>1, <1>2, <2>1, <2>2, <2>3, TaskStep
  <1> QED
    BY <1>4, <1>5, <1>6, <1>7 DEF LoadServed

\* A task ends that has not come to play; the one that is waited for has failed.
LEMMA TaskEnds ==
    ASSUME DesktopIInv, ServerOk', EntryOk', TasksOk', clipOf' = clipOf, UNCHANGED <<engine, slips>>,
           NEW s \in Slot, load[s] # NoOne, Ends(s),
           desk' = [Unpended(s) EXCEPT !.status = IF load[s].fresh THEN "failed" ELSE @]
    PROVE  DesktopIInv'
  <1>1. desk \in Desk /\ load \in [Slot -> LoadTask \union {NoOne}] /\ load[s] \in LoadTask
    BY DEF DesktopIInv, TypesOk
  <1>2. Unpended(s) \in Desk /\ Unpended(s) = [desk EXCEPT !.pending = Unpended(s).pending]
    BY <1>1 DEF Unpended, Desk, LoadTask
  <1>3. /\ desk' \in Desk /\ desk'.media = desk.media /\ desk'.elsewhere = desk.elsewhere
        /\ desk'.session = desk.session /\ desk'.status = IF load[s].fresh THEN "failed" ELSE desk.status
    BY <1>1, <1>2 DEF Desk
  <1>4. Ended /\ \A r \in Slot : load'[r] = IF r = s THEN NoOne ELSE load[r]
    BY <1>1, EndedFacts DEF Ends
  <1>5. slips = {} /\ load[s].fresh => ~engine.playing /\ \A r \in Slot : load'[r] # NoOne => ~load'[r].fresh
    BY <1>4 DEF DesktopIInv, FreshOk
  <1>6. PlaysOk' /\ KeptOk'
    BY <1>3, <1>5 DEF DesktopIInv, PlaysOk, KeptOk
  <1>7. engine' \in [session : Ticket \union {NoOne}, playing : BOOLEAN] /\ (engine'.playing => engine'.session # NoOne)
    BY DEF DesktopIInv, TypesOk
  <1> QED
    BY <1>3, <1>4, <1>5, <1>6, <1>7, EndedStep

LEMMA LoadEndsKeep ==
    ASSUME NEW s \in Slot
    PROVE  DesktopIInv /\ (LoadSuperseded(s) \/ LoadFailed(s) \/ LoadReady(s)) => DesktopIInv'
  <1> SUFFICES ASSUME DesktopIInv, LoadSuperseded(s) \/ LoadFailed(s) \/ LoadReady(s) PROVE DesktopIInv'
    OBVIOUS
  <1>1. UNCHANGED <<engine, beat, take, fetch, slips>> /\ load[s] # NoOne
    BY DEF LoadSuperseded, LoadFailed, LoadReady, At
  <1>2. TasksOk'
    BY <1>1 DEF DesktopIInv, TasksOk
  <1>3. load[s] \in LoadTask /\ load[s].session \in Ticket \union {NoOne} /\ load[s].media \in Clip
        /\ Acquired(load[s], clipOf) /\ desk \in Desk
    BY <1>1, TaskFacts DEF DesktopIInv, TypesOk
  <1>4. CASE LoadSuperseded(s)
    <2>1. ServerOk' /\ EntryOk' /\ clipOf' = clipOf
      BY <1>3, <1>4, ReleaseEntry DEF LoadSuperseded, DesktopIInv
    <2>2. Unpended(s) \in Desk
      BY <1>3 DEF Unpended, Desk, LoadTask
    <2>3. desk' = [Unpended(s) EXCEPT !.status = IF load[s].fresh THEN "failed" ELSE @]
      BY <1>4, <2>2 DEF LoadSuperseded, Desk
    <2> QED
      BY <1>1, <1>2, <1>4, <2>1, <2>3, TaskEnds DEF LoadSuperseded
  <1>5. CASE LoadFailed(s)
    <2>1. ServerOk' /\ EntryOk' /\ clipOf' = clipOf
      BY <1>5, ServerStill DEF LoadFailed, DesktopIInv
    <2> QED
      BY <1>1, <1>2, <1>5, <2>1, TaskEnds DEF LoadFailed
  <1>6. CASE LoadReady(s) /\ Goes(s, "open", load[s].session) /\ UNCHANGED <<serverVars, wireVars, desk>>
    <2>1. PICK j \in LoadTask : /\ load' = [load EXCEPT ![s] = j] /\ j.at = "open" /\ j.session = load[s].session
                                /\ j.fresh = load[s].fresh /\ j.media = load[s].media
      BY <1>1, <1>3, <1>6, GoesFacts
    <2>2. ServerOk' /\ EntryOk' /\ clipOf' = clipOf
      BY <1>6, ServerStill DEF DesktopIInv
    <2>3. Acquired(j, clipOf')
      BY <1>3, <1>6, <2>1, <2>2 DEF Acquired, LoadReady, At
    <2> QED
      BY <1>1, <1>2, <1>6, <2>1, <2>2, <2>3, TaskStep
  <1>7. CASE /\ Ends(s) /\ Release(load[s].session)
             /\ desk' = [Unpended(s) EXCEPT !.status = IF load[s].fresh THEN "failed" ELSE @]
    <2>1. ServerOk' /\ EntryOk' /\ clipOf' = clipOf
      BY <1>3, <1>7, ReleaseEntry DEF DesktopIInv
    <2> QED
      BY <1>1, <1>2, <1>7, <2>1, TaskEnds
  <1> QED
    BY <1>4, <1>5, <1>6, <1>7 DEF LoadReady

LEMMA LoadOpensKeeps == ASSUME NEW s \in Slot PROVE DesktopIInv /\ LoadOpens(s) => DesktopIInv'
  <1> SUFFICES ASSUME DesktopIInv, LoadOpens(s) PROVE DesktopIInv'
    OBVIOUS
  <1>1. load[s] # NoOne /\ load[s].at = "open" /\ load[s].fresh /\ UNCHANGED <<beat, take, fetch, slips>>
    BY DEF LoadOpens, At
  <1>2. load[s] \in LoadTask /\ load[s].session \in Ticket /\ load[s].media \in Clip
        /\ clipOf[load[s].session] = load[s].media
    BY <1>1, TaskFacts DEF Acquired
  <1>3. TasksOk'
    BY <1>1 DEF DesktopIInv, TasksOk
  <1>4. ServerOk' /\ EntryOk' /\ clipOf' = clipOf
    BY ServerStill DEF LoadOpens, DesktopIInv
  <1>5. desk \in Desk /\ load \in [Slot -> LoadTask \union {NoOne}]
    BY DEF DesktopIInv, TypesOk
  <1>6. Unpended(s) \in Desk /\ Unpended(s).media = desk.media
    BY <1>2, <1>5 DEF Unpended, Desk, LoadTask
  <1>7. /\ desk' \in Desk /\ desk'.media = desk.media /\ desk'.status = "playing" /\ ~desk'.elsewhere
        /\ desk'.session = load[s].session
    BY <1>2, <1>6 DEF LoadOpens, Desk
  <1>8. engine' \in [session : Ticket \union {NoOne}, playing : BOOLEAN] /\ engine'.session = load[s].session
    BY <1>2 DEF LoadOpens
  <1>9. Ended /\ \A r \in Slot : load'[r] = IF r = s THEN NoOne ELSE load[r]
    BY <1>5, EndedFacts DEF LoadOpens, Ends
  <1>10. slips = {} => desk.media = load[s].media /\ \A r \in Slot : load'[r] # NoOne => ~load'[r].fresh
    BY <1>1, <1>9 DEF DesktopIInv, FreshOk
  <1>11. engine'.session # NoOne
    BY <1>2, <1>8, ServerAssumption
  <1>12. PlaysOk'
    BY <1>1, <1>2, <1>7, <1>8, <1>10, ServerAssumption DEF PlaysOk
  <1>13. KeptOk'
    BY <1>1, <1>2, <1>4, <1>7, <1>8, <1>10 DEF KeptOk
  <1> QED
    BY <1>1, <1>3, <1>4, <1>7, <1>8, <1>9, <1>10, <1>11, <1>12, <1>13, EndedStep

-----------------------------------------------------------------------------
(* What is heard of another holder *)

LEMMA SilentFacts ==
    ASSUME DesktopIInv, engine' \in {engine, Silent}
    PROVE  /\ engine' \in [session : Ticket \union {NoOne}, playing : BOOLEAN]
           /\ engine'.playing => engine'.session # NoOne /\ engine' = engine
           /\ engine' = Silent => ~engine'.playing /\ engine'.session = NoOne
  <1>1. engine \in [session : Ticket \union {NoOne}, playing : BOOLEAN] /\ (engine.playing => engine.session # NoOne)
    BY DEF DesktopIInv, TypesOk
  <1>2. Silent \in [session : Ticket \union {NoOne}, playing : BOOLEAN] /\ ~Silent.playing /\ Silent.session = NoOne
    BY DEF Silent
  <1> QED
    BY <1>1, <1>2

\* The desktop gives its session up.
LEMMA SilenceStep ==
    ASSUME DesktopIInv, ServerOk', EntryOk', TasksOk', clipOf' = clipOf, Ended, slips \subseteq slips',
           desk' = [desk EXCEPT !.session = NoOne], engine' \in {engine, Silent},
           desk.elsewhere \/ engine' = Silent
    PROVE  DesktopIInv'
  <1>1. /\ desk' \in Desk /\ desk'.media = desk.media /\ desk'.elsewhere = desk.elsewhere
        /\ desk'.status = desk.status /\ desk'.session = NoOne
    BY DEF DesktopIInv, TypesOk, Desk
  <1>2. /\ engine' \in [session : Ticket \union {NoOne}, playing : BOOLEAN]
        /\ engine'.playing => engine'.session # NoOne /\ engine' = engine
        /\ engine' = Silent => ~engine'.playing /\ engine'.session = NoOne
    BY SilentFacts
  <1>3. slips' = {} => ~engine'.playing
    BY <1>2 DEF DesktopIInv, PlaysOk
  <1>4. PlaysOk' /\ KeptOk'
    BY <1>1, <1>2, <1>3 DEF PlaysOk, KeptOk
  <1> QED
    BY <1>1, <1>2, <1>4, EndedStep

\* The desktop shows what is played elsewhere.
LEMMA ElsewhereStep ==
    ASSUME DesktopIInv, ServerOk', EntryOk', TasksOk', clipOf' = clipOf, Ended, slips \subseteq slips',
           desk' \in Desk, desk'.elsewhere, engine' \in {engine, Silent},
           desk.session = NoOne \/ engine' = Silent,
           slips' = {} => \A s \in Slot : load'[s] # NoOne => ~load'[s].fresh
    PROVE  DesktopIInv'
  <1>1. /\ engine' \in [session : Ticket \union {NoOne}, playing : BOOLEAN]
        /\ engine'.playing => engine'.session # NoOne /\ engine' = engine
        /\ engine' = Silent => ~engine'.playing /\ engine'.session = NoOne
    BY SilentFacts
  <1>2. slips' = {} => ~engine'.playing
    BY <1>1 DEF DesktopIInv, PlaysOk
  <1>3. PlaysOk' /\ KeptOk'
    BY <1>2 DEF PlaysOk, KeptOk
  <1> QED
    BY <1>1, <1>3, EndedStep

\* The desktop forgets what was played elsewhere, if anything was.
LEMMA AvailableStep ==
    ASSUME DesktopIInv, ServerOk', EntryOk', TasksOk', clipOf' = clipOf, UNCHANGED <<engine, load, slips>>,
           desk' \in Desk, desk'.session = desk.session,
           \/ UNCHANGED <<desk.media, desk.status, desk.elsewhere>>
           \/ desk.elsewhere /\ desk'.media = NoOne
    PROVE  DesktopIInv'
  <1>1. CASE UNCHANGED <<desk.media, desk.status, desk.elsewhere>>
    BY <1>1 DEF DesktopIInv, TypesOk, FreshOk, PlaysOk, KeptOk
  <1>2. CASE desk.elsewhere /\ desk'.media = NoOne
    BY <1>2 DEF DesktopIInv, TypesOk, FreshOk, PlaysOk, KeptOk
  <1> QED
    BY <1>1, <1>2

LEMMA LoadRefusedKeeps == ASSUME NEW s \in Slot PROVE DesktopIInv /\ LoadRefused(s) => DesktopIInv'
  <1> SUFFICES ASSUME DesktopIInv, LoadRefused(s) PROVE DesktopIInv'
    OBVIOUS
  <1>1. load[s] # NoOne /\ load[s] \in LoadTask /\ desk \in Desk
    BY TaskFacts DEF LoadRefused, At, DesktopIInv, TypesOk
  <1>2. fetch' \in [Caller -> Fetch \union {NoOne}]
    <2>1. [was |-> desk.elsewhere, heard |-> FALSE, holder |-> TRUE, takeover |-> load[s].takeover] \in Fetch
      BY <1>1 DEF Fetch, Desk, LoadTask
    <2> QED
      BY <2>1 DEF LoadRefused, Remote, DesktopIInv, TasksOk
  <1>3. TasksOk'
    BY <1>2 DEF LoadRefused, DesktopIInv, TasksOk
  <1>4. ServerOk' /\ EntryOk' /\ clipOf' = clipOf
    BY ServerStill DEF LoadRefused, DesktopIInv
  <1>5. Ended
    BY EndedFacts DEF LoadRefused, Ends
  <1> QED
    BY <1>3, <1>4, <1>5, SilenceStep DEF LoadRefused, Remote

LEMMA HeardFacts ==
    ASSUME DesktopIInv, NEW f \in Heard(fetch)
    PROVE  f \in [Caller -> Fetch \union {NoOne}]
  <1>1. fetch \in [Caller -> Fetch \union {NoOne}]
    BY DEF DesktopIInv, TasksOk
  <1>2. \A x \in Fetch : [x EXCEPT !.heard = TRUE] \in Fetch
    BY DEF Fetch
  <1>3. \A c \in Caller : fetch[c] # NoOne => [fetch[c] EXCEPT !.heard = TRUE] \in Fetch
    BY <1>1, <1>2
  <1> QED
    BY <1>1, <1>3 DEF Heard

\* A holder whose medium has been fetched is shown, unless the desktop plays,
\* or has heard other news, by now.
LEMMA RemoteFetchedKeeps == ASSUME NEW c \in Caller PROVE DesktopIInv /\ RemoteFetched(c) => DesktopIInv'
  <1> SUFFICES ASSUME DesktopIInv, RemoteFetched(c) PROVE DesktopIInv'
    OBVIOUS
  <1> DEFINE settled == [desk EXCEPT !.pending = @ /\ ~fetch[c].takeover]
             superseded == desk.session # NoOne \/ fetch[c].heard \/ (fetch[c].was /\ ~desk.elsewhere)
  <1>1. desk \in Desk /\ fetch[c] \in Fetch /\ fetch' \in [Caller -> Fetch \union {NoOne}]
    BY DEF DesktopIInv, TypesOk, TasksOk, RemoteFetched
  <1>2. settled \in Desk /\ settled = [desk EXCEPT !.pending = settled.pending]
    BY <1>1 DEF Desk, Fetch
  <1>3. ServerOk' /\ EntryOk' /\ clipOf' = clipOf /\ engine' = engine /\ UNCHANGED <<beat, take>>
    BY ServerStill DEF RemoteFetched, DesktopIInv
  <1>4. slips' = slips \/ (slips' = slips \union {"unfetched"})
    BY DEF RemoteFetched
  <1>5. TasksOk' /\ slips \subseteq slips'
    BY <1>1, <1>3, <1>4 DEF DesktopIInv, TasksOk
  <1>6. CASE desk' = settled /\ UNCHANGED <<load, slips>>
    <2>1. PICK pending \in BOOLEAN : pending = settled.pending
      BY <1>2 DEF Desk
    <2> HIDE DEF settled
    <2> QED
      BY <1>2, <1>3, <1>5, <1>6, <2>1, QuietStep
  <1>7. CASE desk.session = NoOne /\ desk' = Observing(settled) /\ load' = Late(load) /\ UNCHANGED slips
    <2>1. desk' \in Desk /\ desk'.elsewhere
      BY <1>2, <1>7, ServerAssumption DEF Observing, Desk
    <2>2. Ended /\ \A r \in Slot : load'[r] # NoOne => ~load'[r].fresh
      BY <1>7, EndedFacts
    <2> QED
      BY <1>3, <1>5, <1>7, <2>1, <2>2, ElsewhereStep
  <1>8. CASE /\ desk.session = NoOne /\ load' = load
             /\ desk' = [settled EXCEPT !.status = "paused", !.elsewhere = TRUE]
             /\ slips' = slips \union (IF \E s \in Slot : load[s] # NoOne THEN {"unfetched"} ELSE {})
    <2>1. desk' \in Desk /\ desk'.elsewhere
      BY <1>2, <1>8 DEF Desk
    <2>2. slips' = {} => \A r \in Slot : load'[r] = NoOne
      BY <1>8
    <2>3. Ended
      BY <1>8 DEF Ended, DesktopIInv, TypesOk
    <2> QED
      BY <1>3, <1>5, <1>8, <2>1, <2>2, <2>3, ElsewhereStep
  <1> QED
    BY <1>6, <1>7, <1>8 DEF RemoteFetched

-----------------------------------------------------------------------------
(* The socket's event loop *)

LEMMA LossHeardKeeps == DesktopIInv /\ LossHeard => DesktopIInv'
  <1> SUFFICES ASSUME DesktopIInv, LossHeard PROVE DesktopIInv'
    OBVIOUS
  <1>1. ServerOk' /\ EntryOk' /\ clipOf' = clipOf
    BY NewsTaken DEF LossHeard, Arriving, DesktopIInv
  <1>2. TasksOk' /\ UNCHANGED <<desk, load, slips>>
    BY DEF LossHeard, taskVars, DesktopIInv, TasksOk
  <1>3. engine' \in {engine, Silent}
    BY DEF LossHeard
  <1>4. /\ engine' \in [session : Ticket \union {NoOne}, playing : BOOLEAN]
        /\ engine'.playing => engine'.session # NoOne /\ engine' = engine
        /\ engine' = Silent => ~engine'.playing /\ engine'.session = NoOne
    BY <1>3, SilentFacts
  <1>5. TypesOk' /\ FreshOk'
    BY <1>1, <1>2, <1>4 DEF DesktopIInv, TypesOk, FreshOk
  <1>6. PlaysOk' /\ KeptOk'
    BY <1>1, <1>2, <1>3, <1>4 DEF DesktopIInv, PlaysOk, KeptOk
  <1> QED
    BY <1>1, <1>2, <1>5, <1>6 DEF DesktopIInv

LEMMA AvailableFacts ==
    ASSUME NEW d \in Desk
    PROVE  /\ Available(d) \in Desk /\ Available(d).session = d.session
           /\ \/ /\ Available(d).media = d.media /\ Available(d).status = d.status
                 /\ Available(d).elsewhere = d.elsewhere
              \/ d.elsewhere /\ Available(d).media = NoOne
  BY DEF Available, Desk

LEMMA StateHeardKeeps == DesktopIInv /\ StateHeard => DesktopIInv'
  <1> SUFFICES ASSUME DesktopIInv, StateHeard PROVE DesktopIInv'
    OBVIOUS
  <1>1. ServerOk' /\ EntryOk' /\ clipOf' = clipOf
    BY NewsTaken DEF StateHeard, Arriving, DesktopIInv
  <1>2. UNCHANGED <<beat, take, slips>> /\ desk \in Desk
    BY DEF StateHeard, DesktopIInv, TypesOk
  <1>3. CASE fetch' \in Heard(fetch) /\ UNCHANGED <<engine, load>> /\ desk' \in {desk, Available(desk)}
    <2>1. TasksOk'
      BY <1>2, <1>3, HeardFacts DEF DesktopIInv, TasksOk
    <2>2. /\ desk' \in Desk /\ desk'.session = desk.session
          /\ \/ UNCHANGED <<desk.media, desk.status, desk.elsewhere>>
             \/ desk.elsewhere /\ desk'.media = NoOne
      BY <1>2, <1>3, AvailableFacts
    <2> QED
      BY <1>1, <1>2, <1>3, <2>1, <2>2, AvailableStep
  <1>4. CASE /\ fetch' \in Heard(fetch) /\ desk' = Observing(desk) /\ load' = Late(load)
             /\ engine' = IF desk.session = NoOne THEN engine ELSE Silent
    <2>1. TasksOk'
      BY <1>2, <1>4, HeardFacts DEF DesktopIInv, TasksOk
    <2>2. desk' \in Desk /\ desk'.elsewhere
      BY <1>2, <1>4, ServerAssumption DEF Observing, Desk
    <2>3. Ended /\ \A r \in Slot : load'[r] # NoOne => ~load'[r].fresh
      BY <1>4, EndedFacts
    <2> QED
      BY <1>1, <1>2, <1>4, <2>1, <2>2, <2>3, ElsewhereStep
  <1>5. CASE /\ desk' = [desk EXCEPT !.session = NoOne] /\ UNCHANGED load
             /\ engine' = IF desk.session = NoOne /\ desk.elsewhere THEN engine ELSE Silent
             /\ \E f \in Heard(fetch) : fetch' = [f EXCEPT !["socket"] =
                   [was |-> desk.elsewhere, heard |-> FALSE, holder |-> TRUE, takeover |-> FALSE]]
    <2>1. [was |-> desk.elsewhere, heard |-> FALSE, holder |-> TRUE, takeover |-> FALSE] \in Fetch
      BY <1>2 DEF Fetch, Desk
    <2>2. fetch' \in [Caller -> Fetch \union {NoOne}]
      BY <1>5, <2>1, HeardFacts
    <2>3. TasksOk'
      BY <1>2, <2>2 DEF DesktopIInv, TasksOk
    <2>4. Ended
      BY <1>5 DEF Ended, DesktopIInv, TypesOk
    <2> QED
      BY <1>1, <1>2, <1>5, <2>3, <2>4, SilenceStep
  <1> QED
    BY <1>3, <1>4, <1>5 DEF StateHeard

\* A report binds the session or is answered with the state.
LEMMA PublishStateKeeps == DesktopIInv /\ PublishState => DesktopIInv'
  <1> SUFFICES ASSUME DesktopIInv, PublishState PROVE DesktopIInv'
    OBVIOUS
  <1>1. desk \in Desk /\ desk.session \in Ticket /\ online /\ UNCHANGED <<serverVars, online, engine, taskVars, slips>>
    BY DEF PublishState, ReportDue, DesktopIInv, TypesOk, Desk
  <1>2. TasksOk' /\ UNCHANGED <<load, clipOf>>
    BY <1>1 DEF DesktopIInv, TasksOk, taskVars, serverVars
  <1>3. CASE BoundTo(desk.session) /\ desk' = [desk EXCEPT !.bound = desk.session]
    <2>1. PICK t \in Ticket \union {NoOne} : t = desk.session
      BY <1>1
    <2>2. ServerOk'
      BY <1>1, <1>3, <2>1, BoundKeeps DEF DesktopIInv
    <2>3. EntryOk'
      BY <1>1, <1>3 DEF DesktopIInv, EntryOk, BoundTo, Rebound, serverVars
    <2>4. /\ desk' \in Desk /\ desk'.session = desk.session
          /\ UNCHANGED <<desk.media, desk.status, desk.elsewhere>>
      BY <1>1, <1>3 DEF Desk
    <2> QED
      BY <1>1, <1>2, <2>2, <2>3, <2>4, AvailableStep
  <1>4. CASE news' = Append(news, Stated(entry, owner)) /\ UNCHANGED <<entry, desk>>
    <2>1. news \in Seq(Message) /\ entry \in Entries /\ owner \in Owners
      BY DEF DesktopIInv, ServerOk, ServerTypeOK, Entries, Owners
    <2>2. news' \in Seq(Message) /\ news' # <<>> /\ (owner = Rival => news'[Len(news')] = Busy)
      BY <1>4, <2>1, GrownFacts
    <2>3. ServerOk' /\ EntryOk'
      BY <1>1, <1>4, <2>2 DEF DesktopIInv, ServerOk, ServerTypeOK, NewsOk, EntryOk, serverVars
    <2> QED
      BY <1>1, <1>2, <1>4, <2>3, IdleStep
  <1> QED
    BY <1>3, <1>4 DEF PublishState

LEMMA DesktopSocketKeeps == DesktopIInv /\ (SocketBreaks \/ SocketIsReady) => DesktopIInv'
  <1> SUFFICES ASSUME DesktopIInv, SocketBreaks \/ SocketIsReady PROVE DesktopIInv'
    OBVIOUS
  <1> DEFINE d == [desk EXCEPT !.bound = NoOne]
  <1>1. desk \in Desk /\ clipOf' = clipOf /\ UNCHANGED <<serverVars, engine, load, beat, take, slips>>
    BY DEF SocketBreaks, SocketIsReady, DesktopIInv, TypesOk, taskVars, serverVars
  <1>2. /\ d \in Desk /\ d.session = desk.session /\ d.media = desk.media /\ d.status = desk.status
        /\ d.elsewhere = desk.elsewhere
    BY <1>1 DEF Desk
  <1>3. CASE SocketBreaks
    <2>1. ServerOk'
      BY <1>3, CloseKeeps DEF SocketBreaks, DesktopIInv
    <2>2. EntryOk'
      BY <1>3 DEF SocketBreaks, EntryOk, Unbound
    <2>3. TasksOk'
      BY <1>1, <1>3, HeardFacts DEF SocketBreaks, DesktopIInv, TasksOk
    <2>4. desk' = IF d.session = NoOne THEN Available(d) ELSE d
      BY <1>3 DEF SocketBreaks
    <2> HIDE DEF d
    <2>5. /\ desk' \in Desk /\ desk'.session = desk.session
          /\ \/ UNCHANGED <<desk.media, desk.status, desk.elsewhere>>
             \/ desk.elsewhere /\ desk'.media = NoOne
      BY <1>2, <2>4, AvailableFacts
    <2> QED
      BY <1>1, <2>1, <2>2, <2>3, <2>5, AvailableStep
  <1>4. CASE SocketIsReady
    <2>1. news' = Append(<<>>, Stated(Unbound, owner)) /\ entry' = Unbound /\ online'
      BY <1>4 DEF SocketIsReady
    <2>2. Unbound \in Entries /\ <<>> \in Seq(Message) /\ owner \in Owners
      BY EmptySeq DEF Unbound, Entries, Owners, DesktopIInv, ServerOk, ServerTypeOK
    <2>3. news' \in Seq(Message) /\ (owner = Rival => news'[Len(news')] = Busy)
      BY <2>1, <2>2, GrownFacts
    <2>4. ServerOk' /\ EntryOk'
      BY <1>1, <1>4, <2>1, <2>2, <2>3
         DEF SocketIsReady, DesktopIInv, ServerOk, ServerTypeOK, NewsOk, EntryOk, Entries, Unbound, serverVars
    <2>5. TasksOk' /\ desk' = d
      BY <1>4 DEF SocketIsReady, DesktopIInv, TasksOk, taskVars
    <2> HIDE DEF d
    <2> QED
      BY <1>1, <1>2, <2>4, <2>5, AvailableStep
  <1> QED
    BY <1>3, <1>4

-----------------------------------------------------------------------------
(* heartbeat *)

LEMMA BeatsGoKeep == DesktopIInv /\ (BeatBegins \/ BeatServed) => DesktopIInv'
  <1> SUFFICES ASSUME DesktopIInv, BeatBegins \/ BeatServed PROVE DesktopIInv'
    OBVIOUS
  <1>1. ServerOk' /\ EntryOk' /\ clipOf' = clipOf /\ UNCHANGED <<desk, engine, load, take, fetch, slips>>
    BY ServerStill DEF BeatBegins, BeatServed, DesktopIInv
  <1>2. beat' \in [session : Ticket \union {NoOne},
                   at : {"sent", "fine", "busy", "available", "lost", "error"}] \union {NoOne}
    BY DEF BeatBegins, BeatServed, DesktopIInv, TypesOk, TasksOk, Desk
  <1> QED
    BY <1>1, <1>2, IdleStep DEF DesktopIInv, TasksOk

LEMMA WatchAnsweredKeeps == DesktopIInv /\ WatchAnswered => DesktopIInv'
  <1> SUFFICES ASSUME DesktopIInv, WatchAnswered PROVE DesktopIInv'
    OBVIOUS
  <1>1. ServerOk' /\ EntryOk' /\ clipOf' = clipOf /\ UNCHANGED <<load, take, slips>> /\ beat' = NoOne /\ desk \in Desk
    BY ServerStill DEF WatchAnswered, DesktopIInv, TypesOk
  <1>2. CASE Remote("beat", desk, TRUE, FALSE)
    <2>1. [was |-> desk.elsewhere, heard |-> FALSE, holder |-> TRUE, takeover |-> FALSE] \in Fetch
      BY <1>1 DEF Fetch, Desk
    <2>2. TasksOk'
      BY <1>1, <1>2, <2>1 DEF Remote, DesktopIInv, TasksOk
    <2>3. Ended
      BY <1>1 DEF Ended, DesktopIInv, TypesOk
    <2> QED
      BY <1>1, <1>2, <2>2, <2>3, SilenceStep DEF Remote
  <1>3. CASE desk' \in {desk, Available(desk)} /\ UNCHANGED <<engine, fetch>>
    <2>1. TasksOk'
      BY <1>1, <1>3 DEF DesktopIInv, TasksOk
    <2>2. /\ desk' \in Desk /\ desk'.session = desk.session
          /\ \/ UNCHANGED <<desk.media, desk.status, desk.elsewhere>>
             \/ desk.elsewhere /\ desk'.media = NoOne
      BY <1>1, <1>3, AvailableFacts
    <2> QED
      BY <1>1, <1>3, <2>1, <2>2, AvailableStep
  <1> QED
    BY <1>2, <1>3 DEF WatchAnswered

LEMMA BeatAnsweredKeeps == DesktopIInv /\ BeatAnswered => DesktopIInv'
  <1> SUFFICES ASSUME DesktopIInv, BeatAnswered PROVE DesktopIInv'
    OBVIOUS
  <1>1. ServerOk' /\ EntryOk' /\ clipOf' = clipOf /\ UNCHANGED <<load, take>> /\ beat' = NoOne /\ desk \in Desk
    BY ServerStill DEF BeatAnswered, DesktopIInv, TypesOk
  <1>2. slips \subseteq slips' /\ slips' \subseteq slips \union {"beat"}
    BY DEF BeatAnswered
  <1>3. fetch' \in [Caller -> Fetch \union {NoOne}]
    <2>1. [was |-> desk.elsewhere, heard |-> FALSE, holder |-> beat.at = "busy", takeover |-> FALSE] \in Fetch
      BY <1>1 DEF Fetch, Desk
    <2> QED
      BY <2>1 DEF BeatAnswered, DesktopIInv, TasksOk
  <1>4. TasksOk' /\ Ended
    BY <1>1, <1>2, <1>3 DEF DesktopIInv, TasksOk, Ended, TypesOk
  <1>5. CASE beat.at = "fine" /\ UNCHANGED <<desk, engine, fetch>>
    <2>1. slips' = slips
      BY <1>5 DEF BeatAnswered
    <2> QED
      BY <1>1, <1>4, <1>5, <2>1, IdleStep
  <1>6. CASE /\ beat.at = "error" /\ engine' = Silent
             /\ desk' = [desk EXCEPT !.status = "paused", !.elsewhere = TRUE]
    <2>1. desk' \in Desk /\ desk'.elsewhere
      BY <1>1, <1>6 DEF Desk
    <2>2. slips' = {} => \A s \in Slot : load'[s] = NoOne
      BY <1>1, <1>6 DEF BeatAnswered
    <2> QED
      BY <1>1, <1>2, <1>4, <1>6, <2>1, <2>2, ElsewhereStep
  <1>7. CASE engine' = Silent /\ desk' = [desk EXCEPT !.session = NoOne]
    BY <1>1, <1>2, <1>4, <1>7, SilenceStep
  <1> QED
    BY <1>5, <1>6, <1>7 DEF BeatAnswered

-----------------------------------------------------------------------------
(* The desktop's theorems *)

LEMMA DesktopIInvInit == DesktopInit => DesktopIInv
  <1> SUFFICES ASSUME DesktopInit PROVE DesktopIInv
    OBVIOUS
  <1>1. ServerOk
    BY ServerIInvInit DEF DesktopInit
  <1>2. EntryOk /\ TasksOk
    BY DEF DesktopInit, ServerInit, EntryOk, Unbound, TasksOk
  <1>3. TypesOk /\ desk.media = NoOne /\ ~engine.playing /\ \A s \in Slot : load[s] = NoOne
    BY DEF DesktopInit, TypesOk, Desk
  <1> QED
    BY <1>1, <1>2, <1>3 DEF DesktopIInv, FreshOk, PlaysOk, KeptOk

LEMMA DesktopIInvNext == DesktopIInv /\ [DesktopNext]_desktopVars => DesktopIInv'
  <1> SUFFICES ASSUME DesktopIInv, [DesktopNext]_desktopVars PROVE DesktopIInv'
    OBVIOUS
  <1>1. CASE UNCHANGED desktopVars
    <2>1. ServerOk' /\ EntryOk' /\ clipOf' = clipOf
      BY <1>1, ServerStill DEF DesktopIInv, desktopVars
    <2>2. TasksOk' /\ UNCHANGED <<desk, engine, load, slips>>
      BY <1>1 DEF DesktopIInv, TasksOk, desktopVars, taskVars
    <2> QED
      BY <2>1, <2>2, IdleStep
  <1>2. ASSUME NEW s \in Slot, LoadStep(s) PROVE DesktopIInv'
    BY <1>2, LoadMovesKeep, LoadEndsKeep, LoadOpensKeeps, LoadRefusedKeeps DEF LoadStep
  <1> QED
    BY <1>1, <1>2, DesktopWorldKeeps, PlayMediaAtKeeps, SetPlayingKeeps, StopPlaybackKeeps, DesktopTakeOverKeeps,
       RemoteFetchedKeeps, LossHeardKeeps, StateHeardKeeps, PublishStateKeeps, DesktopSocketKeeps,
       BeatsGoKeep, WatchAnsweredKeeps, BeatAnsweredKeeps DEF DesktopNext

\* The invariant of the desktop holds in every state, for any number of tasks at
\* a time.
THEOREM DesktopInvariant == DesktopSpec => []DesktopIInv
  <1> QED
    BY DesktopIInvInit, DesktopIInvNext, PTL DEF DesktopSpec

\* What the desktop plays is the session of the medium that it shows, whichever
\* tasks were superseded and whatever was fetched, heard or taken over meanwhile
\* (mod.rs:1540, 1548).
THEOREM DesktopPlaysWhatItShows == DesktopSpec => []DesktopInv
  <1>1. DesktopIInv => DesktopTypeOK
    BY DEF DesktopIInv, ServerOk, TypesOk, TasksOk, DesktopTypeOK
  <1>2. DesktopIInv => PlaysWhatItShows
    BY DEF DesktopIInv, TypesOk, PlaysOk, KeptOk, PlaysWhatItShows
  <1>3. DesktopIInv => DesktopInv
    BY <1>1, <1>2 DEF DesktopInv
  <1> QED
    BY <1>3, DesktopInvariant, PTL

\* A desktop that plays on beside another device has a report due: the session
\* that it would have reported last is not the lease's, so that its socket is
\* not bound to it (mod.rs:724, 1781).
THEOREM RivalSilencesTheDesktop == DesktopSpec => []RivalSilencesDesktop
  <1>1. DesktopIInv => RivalSilencesDesktop
    <2> SUFFICES ASSUME DesktopIInv, online, ~ReportDue, owner = Rival, slips = {}, engine.playing PROVE FALSE
      BY DEF RivalSilencesDesktop
    <2>1. desk.session # NoOne /\ desk.session = entry.bound
      BY DEF DesktopIInv, TypesOk, PlaysOk, ReportDue
    <2>2. desk.session \in Ticket
      BY <2>1 DEF DesktopIInv, TypesOk, Desk
    <2> QED
      BY <2>1, <2>2, ServerAssumption DEF DesktopIInv, EntryOk
  <1> QED
    BY <1>1, DesktopInvariant, PTL
=============================================================================
