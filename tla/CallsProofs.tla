----------------------------- MODULE CallsProofs -----------------------------
(***************************************************************************)
(* Proofs about Monitor, for any threads, events and watermark, about      *)
(* Listener, for any listeners, addresses, clients and descriptors, and    *)
(* about SocketCall, for any sockets, timeouts, poll items and watermark.  *)
(***************************************************************************)
EXTENDS MCCalls, SequenceTheorems, FiniteSetTheorems, NaturalsInduction, WellFoundedInduction,
        TLAPS

-----------------------------------------------------------------------------
(* Monitor.                                                                *)

Events == Reported \cup {M!STOPPED}
Fr(part, i) == [part |-> part, event |-> reported[i], id |-> i]

\* The frames, and what the handlers were given.
Frames == [part : {"event", "address"}, event : Events \cup {"none"}, id : Nat]
Handled == [handler : {M!handler(e) : e \in Events \cup {"none"}} \cup {"UNKNOWN"}, id : Nat,
            address : Nat]

Pair == [peer : BOOLEAN, stop : {"none", "sent", "taken"}]

MonTypeOK ==
  /\ reported \in Seq(Events) /\ monitor_events \subseteq Events
  /\ pipe \in Seq(Frames) /\ partial \in Seq(Frames) /\ first \in Frames \cup {M!NoFrame}
  /\ emitting \in [M!Threads -> [at : {"idle", "event", "address", "sent"},
                                 event : Events \cup {"none"}, id : Nat]]
  /\ got \in Seq(Handled)
  /\ pair \in Pair

\* One thread at a time is inside monitor_event.
OneEmits ==
  \A t, u \in M!Threads : emitting[t] # M!None /\ emitting[u] # M!None => t = u

Sending(t) == emitting[t].at \in {"event", "address"}
Behind == Len(reported) - IF \E t \in M!Threads : Sending(t) THEN 1 ELSE 0

\* The frame that has been received and the ones in the pipe are those of the
\* next mm events.
Half == IF first = M!NoFrame THEN 0 ELSE 1
StreamOf(mm) ==
  /\ Len(pipe) + Half = 2 * mm /\ Len(got) + mm <= Behind
  /\ first # M!NoFrame => mm > 0 /\ first = Fr("event", Len(got) + 1)
  /\ \A k \in 1 .. mm :
       /\ 2 * k - 1 - Half > 0 => pipe[2 * k - 1 - Half] = Fr("event", Len(got) + k)
       /\ pipe[2 * k - Half] = Fr("address", Len(got) + k)

\* Until the stop is taken nothing gets lost: behind the pipe is the event that is
\* being reported.  From then on nothing more is written.
Writing == pair.stop # "taken" /\ client # "closed"
FramesWritten ==
  /\ \A t \in M!Threads : Sending(t) =>
       /\ Len(reported) > 0 /\ emitting[t].id = Len(reported)
       /\ emitting[t].event = reported[Len(reported)]
  /\ (\A t \in M!Threads : emitting[t].at # "address") => partial = <<>>
  /\ (\E t \in M!Threads : emitting[t].at = "address") => partial = <<Fr("event", Len(reported))>>
Stream ==
  /\ \E mm \in Nat : StreamOf(mm) /\ (Writing => Len(got) + mm = Behind)
  /\ Writing => FramesWritten

MonInv ==
  /\ MonTypeOK /\ OneEmits /\ (client # "closed" => Stream)
  /\ Len(got) <= Len(reported) /\ M!EventsTrue

\* Nothing has happened yet.
LEMMA InitMon == ASSUME M!MonitorInit PROVE MonInv
<1>1. \A t \in M!Threads : emitting[t] = M!None
  BY DEF M!MonitorInit
<1>2. /\ monitor_events = {} /\ pair = [peer |-> FALSE, stop |-> "none"] /\ pipe = <<>>
      /\ partial = <<>> /\ emitting = [t \in M!Threads |-> M!None] /\ reported = <<>>
      /\ first = M!NoFrame /\ got = <<>>
  BY DEF M!MonitorInit
<1>3. MonTypeOK
  BY <1>2 DEF MonTypeOK, Pair, M!None
<1>4. OneEmits
  BY <1>1 DEF OneEmits
<1>5. \A t \in M!Threads : ~ Sending(t) /\ emitting[t].at # "address"
  BY <1>1 DEF Sending, M!None
<1>6. StreamOf(0) /\ Len(got) + 0 = Behind
  BY <1>2, <1>5 DEF StreamOf, Half, Behind
<1>7. Stream
  BY <1>2, <1>5, <1>6 DEF Stream, FramesWritten
<1>8. M!EventsTrue /\ Len(got) <= Len(reported)
  BY <1>2 DEF M!EventsTrue
<1> QED
  BY <1>3, <1>4, <1>7, <1>8 DEF MonInv

\* A step that moves no frame and no event.
LEMMA MonQuiet ==
  ASSUME MonInv, UNCHANGED <<pipe, partial, emitting, reported, first, got>>,
         monitor_events' \subseteq Events, pair' \in Pair,
         Writing' => Writing, client' # "closed" => client # "closed"
  PROVE  MonInv'
<1>1. MonTypeOK'
  BY DEF MonInv, MonTypeOK, Events, Frames, Handled
<1>2. OneEmits'
  BY DEF MonInv, OneEmits
<1>3. Stream => Stream'
  <2>1. /\ FramesWritten => FramesWritten'
        /\ \A mm \in Nat : StreamOf(mm) => StreamOf(mm)'
        /\ Behind' = Behind /\ Len(got') = Len(got)
    BY DEF FramesWritten, StreamOf, Half, Behind, Sending, Fr
  <2> QED
    BY <2>1 DEF Stream
<1>4. M!EventsTrue' /\ Len(got)' <= Len(reported)'
  BY DEF MonInv, M!EventsTrue
<1> QED
  BY <1>1, <1>2, <1>3, <1>4 DEF MonInv

\* An event more: what is in the frames before stays the same.
LEMMA MonStarts ==
  ASSUME MonInv, NEW t \in M!Threads, NEW e \in Events, M!Starts(t, e),
         \A u \in M!Threads : emitting[u] = M!None,
         UNCHANGED <<monitor_events, pair, pipe, partial, client, first, got>>
  PROVE  MonInv'
<1> DEFINE r == Len(reported)
<1>1. /\ reported \in Seq(Events) /\ r \in Nat /\ emitting \in [M!Threads -> [at : {"idle", "event", "address", "sent"},
                                 event : Events \cup {"none"}, id : Nat]]
      /\ got \in Seq(Handled) /\ pipe \in Seq(Frames) /\ Len(got) \in Nat /\ Len(pipe) \in Nat
      /\ Len(got) <= r
  BY LenProperties DEF MonInv, MonTypeOK
<1>2. /\ reported' = Append(reported, e)
      /\ emitting' = [emitting EXCEPT ![t] = [at |-> "event", event |-> e, id |-> r + 1]]
  BY DEF M!Starts
<1>3. /\ reported' \in Seq(Events) /\ Len(reported') = r + 1 /\ reported'[r + 1] = e
      /\ \A i \in 1 .. r : reported'[i] = reported[i]
  BY <1>1, <1>2, AppendProperties
<1>4. /\ emitting'[t] = [at |-> "event", event |-> e, id |-> r + 1]
      /\ \A u \in M!Threads : u # t => emitting'[u] = M!None
  BY <1>1, <1>2
<1>5. MonTypeOK'
  <2>1. emitting' \in [M!Threads -> [at : {"idle", "event", "address", "sent"},
                                 event : Events \cup {"none"}, id : Nat]]
    BY <1>1, <1>2
  <2> QED
    BY <1>3, <2>1 DEF MonInv, MonTypeOK, Events, Frames, Handled
<1>6. OneEmits'
  BY <1>4 DEF OneEmits
<1>7. \A u \in M!Threads : ~ Sending(u) /\ emitting[u].at # "address"
  BY DEF Sending, M!None
<1>8. client' # "closed" => Stream'
  <2> SUFFICES ASSUME client' # "closed" PROVE Stream'
    OBVIOUS
  <2>1. Stream /\ (Writing' => Writing /\ FramesWritten)
    BY DEF Stream, Writing, MonInv
  <2>2. PICK mm \in Nat : StreamOf(mm) /\ (Writing => Len(got) + mm = Behind)
    BY <2>1 DEF Stream
  <2>3. Behind = r /\ Behind' = r
    <3>1. Sending(t)'
      BY <1>4 DEF Sending
    <3> QED
      BY <1>1, <1>3, <1>7, <3>1 DEF Behind
  <2>4. Len(pipe) + Half = 2 * mm /\ Len(got) + mm <= r /\ (Writing => Len(got) + mm = r)
    BY <2>2, <2>3 DEF StreamOf
  <2>5. Half' = Half
    BY DEF Half
  <2>6. \A part : \A i \in 1 .. r : Fr(part, i)' = Fr(part, i)
    BY <1>3 DEF Fr
  <2>7. first # M!NoFrame => mm > 0 /\ first = Fr("event", Len(got) + 1)'
    BY <1>1, <2>2, <2>4, <2>6 DEF StreamOf
  <2>8. \A k \in 1 .. mm :
          /\ 2 * k - 1 - Half > 0 => pipe[2 * k - 1 - Half] = Fr("event", Len(got) + k)'
          /\ pipe[2 * k - Half] = Fr("address", Len(got) + k)'
    <3> SUFFICES ASSUME NEW k \in 1 .. mm
                 PROVE  /\ 2 * k - 1 - Half > 0 => pipe[2 * k - 1 - Half] = Fr("event", Len(got) + k)'
                        /\ pipe[2 * k - Half] = Fr("address", Len(got) + k)'
      OBVIOUS
    <3>1. Len(got) + k \in 1 .. r
      BY <1>1, <2>4
    <3>2. /\ 2 * k - 1 - Half > 0 => pipe[2 * k - 1 - Half] = Fr("event", Len(got) + k)
          /\ pipe[2 * k - Half] = Fr("address", Len(got) + k)
      BY <2>2 DEF StreamOf
    <3>3. Fr("event", Len(got) + k)' = Fr("event", Len(got) + k) /\ Fr("address", Len(got) + k)' = Fr("address", Len(got) + k)
      BY <2>6, <3>1
    <3> QED
      BY <3>2, <3>3
  <2>9. StreamOf(mm)'
    BY <2>3, <2>4, <2>5, <2>7, <2>8 DEF StreamOf
  <2>10. \A u \in M!Threads : emitting'[u].at # "address"
    BY <1>4 DEF M!None
  <2>11. \A u \in M!Threads : Sending(u)' => u = t
    BY <1>4 DEF Sending, M!None
  <2>12. ASSUME Writing' PROVE FramesWritten'
    <3>1. partial' = <<>>
      BY <1>7, <2>1, <2>12 DEF FramesWritten
    <3> QED
      BY <1>1, <1>3, <1>4, <2>10, <2>11, <3>1 DEF FramesWritten
  <2>13. Len(got') = Len(got)
    OBVIOUS
  <2> QED
    BY <2>1, <2>3, <2>4, <2>9, <2>12, <2>13 DEF Stream
<1>9. M!EventsTrue' /\ Len(got)' <= Len(reported)'
  BY <1>1, <1>3 DEF MonInv, M!EventsTrue
<1> QED
  BY <1>5, <1>6, <1>8, <1>9 DEF MonInv

\* The first frame of an event is written, or given up when the context is gone.
LEMMA MonSendEvent ==
  ASSUME MonInv, NEW t \in M!Threads, M!send_event(t)
  PROVE  MonInv'
<1> DEFINE em == [emitting[t] EXCEPT !.at = "address"]
<1>1. /\ emitting[t].at = "event" /\ emitting' = [emitting EXCEPT ![t] = em]
      /\ \/ pair' = pair /\ partial' = Append(partial, M!Frame("event", emitting[t]))
         \/ pair' = [pair EXCEPT !.stop = "taken"] /\ partial' = partial
      /\ UNCHANGED <<monitor_events, pipe, reported, client, first, got>>
  BY DEF M!send_event, M!Fails, M!Writes
<1>2. /\ emitting \in [M!Threads -> [at : {"idle", "event", "address", "sent"},
                                     event : Events \cup {"none"}, id : Nat]]
      /\ partial \in Seq(Frames) /\ Len(reported) \in Nat /\ reported \in Seq(Events)
      /\ pair \in Pair
  BY LenProperties DEF MonInv, MonTypeOK
<1>3. /\ em \in [at : {"idle", "event", "address", "sent"}, event : Events \cup {"none"}, id : Nat]
      /\ em.at = "address" /\ em.id = emitting[t].id /\ em.event = emitting[t].event
  BY <1>2
<1> HIDE DEF em
<1>4. emitting'[t] = em /\ \A u \in M!Threads : u # t => emitting'[u] = emitting[u]
  BY <1>1, <1>2
<1>5. \A u \in M!Threads : u # t => emitting[u] = M!None
  <2>1. emitting[t] # M!None
    BY <1>1 DEF M!None
  <2> QED
    BY <2>1 DEF MonInv, OneEmits
<1>6. OneEmits'
  BY <1>4, <1>5 DEF OneEmits
<1>7. partial' \in Seq(Frames)
  <2>1. CASE partial' = Append(partial, M!Frame("event", emitting[t]))
    <3>2. emitting[t].event \in Events \cup {"none"} /\ emitting[t].id \in Nat
      BY <1>2
    <3> QED
      BY <1>2, <2>1, <3>2 DEF M!Frame, Frames
  <2>2. CASE partial' = partial
    BY <1>2, <2>2
  <2> QED
    BY <1>1, <2>1, <2>2
<1>8. MonTypeOK'
  <2>1. emitting' \in [M!Threads -> [at : {"idle", "event", "address", "sent"},
                                     event : Events \cup {"none"}, id : Nat]]
    BY <1>1, <1>2, <1>3
  <2>2. pair' \in Pair
    BY <1>1, <1>2 DEF Pair
  <2> QED
    BY <1>1, <1>7, <2>1, <2>2 DEF MonInv, MonTypeOK, Events, Frames, Handled
<1>9. client' # "closed" => Stream'
  <2> SUFFICES ASSUME client' # "closed" PROVE Stream'
    OBVIOUS
  <2>1. Stream
    BY <1>1 DEF MonInv
  <2>2. Sending(t) /\ Sending(t)' /\ \A u \in M!Threads : u # t => ~ Sending(u) /\ ~ Sending(u)'
    BY <1>1, <1>3, <1>4, <1>5 DEF Sending, M!None
  <2>3. Behind' = Behind /\ Len(got') = Len(got)
    BY <1>1, <2>2 DEF Behind
  <2>4. \A mm \in Nat : StreamOf(mm) => StreamOf(mm)'
    BY <1>1, <2>3 DEF StreamOf, Half, Fr
  <2>5. Writing' => Writing /\ partial' = Append(partial, M!Frame("event", emitting[t]))
    BY <1>1, <1>2 DEF Writing, Pair
  <2>6. ASSUME Writing' PROVE FramesWritten'
    <3>1. FramesWritten
      BY <2>1, <2>5, <2>6 DEF Stream
    <3>2. emitting[t].id = Len(reported) /\ emitting[t].event = reported[Len(reported)] /\ Len(reported) > 0
      BY <2>2, <3>1 DEF FramesWritten
    <3>3. partial = <<>>
      <4>1. \A u \in M!Threads : emitting[u].at # "address"
        BY <1>1, <1>5 DEF M!None
      <4> QED
        BY <3>1, <4>1 DEF FramesWritten
    <3>4. partial' = <<Fr("event", Len(reported))>>
      BY <2>5, <2>6, <3>2, <3>3 DEF M!Frame, Fr
    <3>5. \E u \in M!Threads : emitting'[u].at = "address"
      BY <1>3, <1>4
    <3>6. \A u \in M!Threads : Sending(u)' =>
             /\ Len(reported') > 0 /\ emitting'[u].id = Len(reported')
             /\ emitting'[u].event = reported'[Len(reported')]
      BY <1>1, <1>3, <1>4, <2>2, <3>2
    <3>7. Fr("event", Len(reported))' = Fr("event", Len(reported))
      BY <1>1 DEF Fr
    <3> QED
      BY <3>4, <3>5, <3>6, <3>7 DEF FramesWritten
  <2> QED
    BY <2>1, <2>3, <2>4, <2>5, <2>6 DEF Stream
<1>10. M!EventsTrue' /\ Len(got)' <= Len(reported)'
  BY <1>1 DEF MonInv, M!EventsTrue
<1> QED
  BY <1>6, <1>8, <1>9, <1>10 DEF MonInv

\* Two frames more at the end.
LEMMA TwoMore ==
  ASSUME NEW F, NEW p \in Seq(F), NEW a \in F, NEW b \in F
  PROVE  LET q == Append(p \o <<a>>, b)
         IN  /\ q \in Seq(F) /\ Len(q) = Len(p) + 2
             /\ q[Len(p) + 1] = a /\ q[Len(p) + 2] = b
             /\ \A i \in 1 .. Len(p) : q[i] = p[i]
<1>1. <<a>> \in Seq(F) /\ Len(<<a>>) = 1 /\ <<a>>[1] = a /\ Len(p) \in Nat
  BY LenProperties
<1>2. /\ p \o <<a>> \in Seq(F) /\ Len(p \o <<a>>) = Len(p) + 1
      /\ \A i \in 1 .. Len(p) + 1 :
           (p \o <<a>>)[i] = IF i <= Len(p) THEN p[i] ELSE <<a>>[i - Len(p)]
  BY <1>1, ConcatProperties
<1>3. (p \o <<a>>)[Len(p) + 1] = a /\ \A i \in 1 .. Len(p) : (p \o <<a>>)[i] = p[i]
  BY <1>1, <1>2
<1>4. ASSUME NEW r \in Seq(F)
      PROVE  /\ Append(r, b) \in Seq(F) /\ Len(Append(r, b)) = Len(r) + 1
             /\ Append(r, b)[Len(r) + 1] = b
             /\ \A i \in 1 .. Len(r) : Append(r, b)[i] = r[i]
  BY AppendProperties
<1>5. /\ Append(p \o <<a>>, b) \in Seq(F) /\ Len(Append(p \o <<a>>, b)) = Len(p \o <<a>>) + 1
      /\ Append(p \o <<a>>, b)[Len(p \o <<a>>) + 1] = b
      /\ \A i \in 1 .. Len(p \o <<a>>) : Append(p \o <<a>>, b)[i] = (p \o <<a>>)[i]
  BY <1>2, <1>4
<1> QED
  BY <1>1, <1>2, <1>3, <1>5

\* The places of the frames of the k-th event in a pipe of n frames.
LEMMA FramePlaces ==
  ASSUME NEW n \in Nat, NEW h \in {0, 1}, NEW mm \in Nat, n + h = 2 * mm, NEW k \in 1 .. mm
  PROVE  2 * k - h \in 1 .. n /\ (2 * k - 1 - h > 0 => 2 * k - 1 - h \in 1 .. n)
  OBVIOUS

\* The places of the frames of one event more.
LEMMA LastPlaces ==
  ASSUME NEW n \in Nat, NEW h \in {0, 1}, NEW mm \in Nat, n + h = 2 * mm
  PROVE  2 * (mm + 1) - h = n + 2 /\ 2 * (mm + 1) - 1 - h = n + 1 /\ n + 2 + h = 2 * (mm + 1)
  OBVIOUS

\* The second frame flushes both.
LEMMA MonSendAddress ==
  ASSUME MonInv, NEW t \in M!Threads, M!send_address(t)
  PROVE  MonInv'
<1> DEFINE em == IF t \in M!Stoppers THEN [emitting[t] EXCEPT !.at = "sent"] ELSE M!None
           fr == M!Frame("address", emitting[t])
<1>1. /\ emitting[t].at = "address" /\ emitting' = [emitting EXCEPT ![t] = em]
      /\ \/ pair.stop # "taken" /\ pair' = pair /\ pipe' = Append(pipe \o partial, fr) /\ partial' = <<>>
            /\ pair.peer
         \/ pair' = [pair EXCEPT !.stop = "taken"] /\ pipe' = pipe /\ partial' = partial
      /\ UNCHANGED <<monitor_events, reported, client, first, got>>
  BY DEF M!send_address, M!Fails, M!Writes
<1>2. /\ emitting \in [M!Threads -> [at : {"idle", "event", "address", "sent"},
                                     event : Events \cup {"none"}, id : Nat]]
      /\ partial \in Seq(Frames) /\ pipe \in Seq(Frames) /\ Len(pipe) \in Nat
      /\ Len(reported) \in Nat /\ reported \in Seq(Events) /\ Len(got) \in Nat
      /\ pair \in Pair
  BY LenProperties DEF MonInv, MonTypeOK
<1>3. /\ em \in [at : {"idle", "event", "address", "sent"}, event : Events \cup {"none"}, id : Nat]
      /\ em.at \in {"idle", "sent"}
  BY <1>2 DEF M!None
<1>4. fr \in Frames
  BY <1>2 DEF M!Frame, Frames
<1>5. fr = [part |-> "address", event |-> emitting[t].event, id |-> emitting[t].id]
  BY DEF M!Frame
<1> HIDE DEF em, fr
<1>6. emitting'[t] = em /\ \A u \in M!Threads : u # t => emitting'[u] = emitting[u]
  BY <1>1, <1>2
<1>7. \A u \in M!Threads : u # t => emitting[u] = M!None
  <2>1. emitting[t] # M!None
    BY <1>1 DEF M!None
  <2> QED
    BY <2>1 DEF MonInv, OneEmits
<1>8. OneEmits'
  BY <1>6, <1>7 DEF OneEmits
<1>9. pipe' \in Seq(Frames) /\ partial' \in Seq(Frames)
  <2>1. Append(pipe \o partial, fr) \in Seq(Frames) /\ <<>> \in Seq(Frames)
    BY <1>2, <1>4, ConcatProperties, AppendProperties
  <2> QED
    BY <1>1, <1>2, <2>1
<1>10. MonTypeOK'
  <2>1. emitting' \in [M!Threads -> [at : {"idle", "event", "address", "sent"},
                                     event : Events \cup {"none"}, id : Nat]]
    BY <1>1, <1>2, <1>3
  <2>2. pair' \in Pair
    BY <1>1, <1>2 DEF Pair
  <2> QED
    BY <1>1, <1>9, <2>1, <2>2 DEF MonInv, MonTypeOK, Events, Frames, Handled
<1>11. client' # "closed" => Stream'
  <2> SUFFICES ASSUME client' # "closed" PROVE Stream'
    OBVIOUS
  <2> DEFINE r == Len(reported)
             n == Len(pipe)
  <2>1. Stream /\ client # "closed"
    BY <1>1 DEF MonInv
  <2>2. Sending(t) /\ \A u \in M!Threads : ~ Sending(u)' /\ emitting'[u].at # "address"
    BY <1>1, <1>3, <1>6, <1>7 DEF Sending, M!None
  <2>4. Behind = r - 1 /\ Behind' = r
    BY <1>1, <1>2, <2>2 DEF Behind
  <2>18. CASE ~ Writing'
    <3>1. pipe' = pipe
      BY <1>1, <1>2, <2>1, <2>18 DEF Writing, Pair
    <3>2. PICK mm \in Nat : StreamOf(mm)
      BY <2>1 DEF Stream
    <3>3. Half' = Half /\ \A part, i : Fr(part, i)' = Fr(part, i)
      BY <1>1 DEF Half, Fr
    <3>4. StreamOf(mm)'
      BY <1>1, <1>2, <2>4, <3>1, <3>2, <3>3 DEF StreamOf
    <3> QED
      BY <2>18, <3>4 DEF Stream
  <2> SUFFICES ASSUME Writing' PROVE Stream'
    BY <2>18
  <2>19. Writing /\ FramesWritten
    BY <1>1, <1>2, <2>1 DEF Writing, Stream, Pair
  <2>3. emitting[t].id = r /\ emitting[t].event = reported[r] /\ r > 0
    BY <2>2, <2>19 DEF FramesWritten
  <2>5. partial = <<Fr("event", r)>> /\ fr = Fr("address", r)
    BY <1>1, <1>5, <2>3, <2>19 DEF FramesWritten, Fr
  <2>6. pipe' = Append(pipe \o partial, fr) /\ partial' = <<>>
    BY <1>1, <1>2 DEF Writing, Pair
  <2>7. /\ Len(pipe') = n + 2 /\ pipe'[n + 1] = Fr("event", r) /\ pipe'[n + 2] = Fr("address", r)
        /\ \A i \in 1 .. n : pipe'[i] = pipe[i]
    <3>1. Fr("event", r) \in Frames
      BY <1>2, <2>3 DEF Fr, Frames
    <3>2. pipe' = Append(pipe \o <<Fr("event", r)>>, Fr("address", r)) /\ Fr("address", r) \in Frames
      BY <1>4, <2>5, <2>6
    <3> QED
      BY <1>2, <3>1, <3>2, TwoMore
  <2>8. PICK mm \in Nat : StreamOf(mm) /\ Len(got) + mm = Behind
    BY <2>1, <2>19 DEF Stream
  <2>9. n + Half = 2 * mm /\ Len(got) + mm = r - 1 /\ (first # M!NoFrame => mm > 0 /\ first = Fr("event", Len(got) + 1))
    BY <2>4, <2>8 DEF StreamOf
  <2>10. Half' = Half /\ Half \in {0, 1}
    BY <1>1 DEF Half
  <2>13. \A part, i : Fr(part, i)' = Fr(part, i)
    BY <1>1 DEF Fr
  <2> HIDE DEF n, r
  <2>14. n \in Nat /\ r \in Nat
    BY <1>2 DEF n, r
  <2>15. n + Half = 2 * mm /\ Half \in {0, 1}
    BY <2>9, <2>10
  <2>16. 2 * (mm + 1) - Half = n + 2 /\ 2 * (mm + 1) - 1 - Half = n + 1 /\ n + 2 + Half = 2 * (mm + 1)
    BY <2>14, <2>15, LastPlaces
  <2>11. ASSUME NEW k \in 1 .. mm + 1
         PROVE  /\ 2 * k - 1 - Half > 0 => pipe'[2 * k - 1 - Half] = Fr("event", Len(got) + k)
                /\ pipe'[2 * k - Half] = Fr("address", Len(got) + k)
    <3>1. CASE k \in 1 .. mm
      <4>1. /\ 2 * k - 1 - Half > 0 => pipe[2 * k - 1 - Half] = Fr("event", Len(got) + k)
            /\ pipe[2 * k - Half] = Fr("address", Len(got) + k)
        BY <2>8, <3>1 DEF StreamOf
      <4>2. 2 * k - Half \in 1 .. n /\ (2 * k - 1 - Half > 0 => 2 * k - 1 - Half \in 1 .. n)
        BY <2>14, <2>15, <3>1, FramePlaces
      <4> QED
        BY <2>7, <4>1, <4>2
    <3>2. CASE k = mm + 1
      <4>1. Len(got) + k = r
        BY <1>2, <2>9, <2>14, <3>2
      <4>2. 2 * k - Half = n + 2 /\ 2 * k - 1 - Half = n + 1
        BY <2>16, <3>2
      <4> QED
        BY <2>7, <4>1, <4>2
    <3> QED
      BY <3>1, <3>2
  <2>20. Len(got') + (mm + 1) = Behind' /\ Len(got') + (mm + 1) <= Behind'
    <3>1. Len(got) + mm = r - 1 /\ Len(got') = Len(got) /\ Len(got) \in Nat
      BY <1>1, <1>2, <2>9
    <3>2. Len(got) + (mm + 1) = r
      BY <2>14, <3>1
    <3> QED
      BY <2>4, <2>14, <3>1, <3>2
  <2>12. StreamOf(mm + 1)'
    <3>1. Len(pipe') + Half' = 2 * (mm + 1)
      BY <2>7, <2>10, <2>16
    <3>2. Len(got') + (mm + 1) <= Behind'
      BY <2>20
    <3>3. first' # M!NoFrame => mm + 1 > 0 /\ first' = Fr("event", Len(got) + 1)
      BY <1>1, <2>9
    <3>4. /\ Len(got') = Len(got) /\ Half' = Half
          /\ \A part, i : Fr(part, i)' = Fr(part, i)
      BY <1>1, <2>10, <2>13
    <3> QED
      BY <2>11, <3>1, <3>2, <3>3, <3>4 DEF StreamOf
  <2>21. FramesWritten'
    BY <2>2, <2>6 DEF FramesWritten
  <2> QED
    BY <2>12, <2>20, <2>21 DEF Stream
<1>12. M!EventsTrue' /\ Len(got)' <= Len(reported)'
  BY <1>1 DEF MonInv, M!EventsTrue
<1> QED
  BY <1>8, <1>10, <1>11, <1>12 DEF MonInv

\* A sequence without its first element.
LEMMA OneLess ==
  ASSUME NEW F, NEW p \in Seq(F), p # <<>>
  PROVE  /\ Tail(p) \in Seq(F) /\ Len(Tail(p)) = Len(p) - 1 /\ Len(p) \in Nat \ {0}
         /\ Head(p) = p[1] /\ p[1] \in F
         /\ \A i \in 1 .. Len(p) - 1 : Tail(p)[i] = p[i + 1]
<1>1. Len(p) \in Nat /\ Len(p) # 0
  BY EmptySeq, LenProperties
<1>2. /\ Tail(p) \in Seq(F) /\ Len(Tail(p)) = Len(p) - 1
      /\ \A i \in 1 .. Len(p) - 1 : Tail(p)[i] = p[i + 1]
  BY HeadTailProperties
<1>3. Head(p) = p[1] /\ p[1] \in F
  BY <1>1
<1> QED
  BY <1>1, <1>2, <1>3

\* The first frame of an event is received.
LEMMA MonRecvEvent ==
  ASSUME MonInv, M!recv_event, "timeout" \notin MonitorRaces
  PROVE  MonInv'
<1>1. /\ client \in {"polling", "draining"} /\ first = M!NoFrame
      /\ pipe # <<>> /\ first' = Head(pipe) /\ pipe' = Tail(pipe)
      /\ UNCHANGED <<monitor_events, pair, partial, emitting, reported, client, got>>
  BY DEF M!recv_event
<1>2. /\ pipe \in Seq(Frames) /\ Len(pipe) \in Nat /\ Len(got) \in Nat
  BY LenProperties DEF MonInv, MonTypeOK
<1> DEFINE n == Len(pipe)
           g == Len(got)
<1>3. /\ pipe' \in Seq(Frames) /\ Len(pipe') = n - 1 /\ n \in Nat \ {0}
      /\ first' = pipe[1] /\ first' \in Frames
      /\ \A i \in 1 .. n - 1 : pipe'[i] = pipe[i + 1]
  BY <1>1, <1>2, OneLess
<1>4. MonTypeOK'
  BY <1>1, <1>3 DEF MonInv, MonTypeOK, Events, Frames, Handled
<1>5. OneEmits'
  BY <1>1 DEF MonInv, OneEmits
<1>6. Stream
  BY <1>1 DEF MonInv
<1>7. PICK mm \in Nat : StreamOf(mm) /\ (Writing => Len(got) + mm = Behind)
  BY <1>6 DEF Stream
<1>8. Half = 0
  BY <1>1 DEF Half
<1> HIDE DEF n, g
<1>9. /\ n = 2 * mm /\ g + mm <= Behind
      /\ \A k \in 1 .. mm : /\ 2 * k - 1 > 0 => pipe[2 * k - 1] = Fr("event", g + k)
                            /\ pipe[2 * k] = Fr("address", g + k)
  <2>1. /\ n + 0 = 2 * mm /\ g + mm <= Behind
        /\ \A k \in 1 .. mm : /\ 2 * k - 1 - 0 > 0 => pipe[2 * k - 1 - 0] = Fr("event", g + k)
                              /\ pipe[2 * k - 0] = Fr("address", g + k)
    BY <1>7, <1>8 DEF StreamOf, n, g
  <2>2. n = 2 * mm
    BY <1>3, <2>1
  <2>3. \A k \in 1 .. mm : 2 * k - 1 - 0 = 2 * k - 1 /\ 2 * k - 0 = 2 * k
    OBVIOUS
  <2> QED
    BY <2>1, <2>2, <2>3
<1>10. mm > 0 /\ 1 \in 1 .. mm
  BY <1>3, <1>9
<1>11. first' = Fr("event", g + 1)
  <2>1. 2 * 1 - 1 > 0 /\ 2 * 1 - 1 = 1
    OBVIOUS
  <2> QED
    BY <1>3, <1>9, <1>10, <2>1
<1>12. Half' = 1
  <2>1. first' # M!NoFrame
    BY <1>11 DEF Fr, M!NoFrame
  <2> QED
    BY <2>1 DEF Half
<1>13. /\ \A part, i : Fr(part, i)' = Fr(part, i)
       /\ Behind' = Behind /\ Len(got') = g
  BY <1>1 DEF Fr, Behind, Sending, g
<1>14. ASSUME NEW k \in 1 .. mm
       PROVE  /\ 2 * k - 1 - 1 > 0 => pipe'[2 * k - 1 - 1] = Fr("event", g + k)
              /\ pipe'[2 * k - 1] = Fr("address", g + k)
  <2>1. pipe[2 * k - 1] = Fr("event", g + k) /\ pipe[2 * k] = Fr("address", g + k)
    BY <1>9
  <2>2. 2 * k - 1 \in 1 .. n - 1 /\ 2 * k - 1 + 1 = 2 * k
    BY <1>3, <1>9
  <2>3. 2 * k - 1 - 1 > 0 => 2 * k - 1 - 1 \in 1 .. n - 1 /\ 2 * k - 1 - 1 + 1 = 2 * k - 1
    BY <1>3, <1>9
  <2> QED
    BY <1>3, <2>1, <2>2, <2>3
<1>15. StreamOf(mm)'
  <2>1. Len(pipe') + Half' = 2 * mm
    BY <1>3, <1>9, <1>12
  <2> QED
    BY <1>9, <1>10, <1>11, <1>12, <1>13, <1>14, <2>1 DEF StreamOf
<1>16. Stream'
  <2>1. Writing' = Writing /\ (FramesWritten => FramesWritten')
    BY <1>1 DEF Writing, FramesWritten, Sending, Fr
  <2>2. Len(got') + mm = Len(got) + mm
    BY <1>1
  <2> QED
    BY <1>6, <1>7, <1>13, <1>15, <2>1, <2>2 DEF Stream
<1>17. M!EventsTrue' /\ Len(got)' <= Len(reported)'
  BY <1>1 DEF MonInv, M!EventsTrue
<1> QED
  BY <1>4, <1>5, <1>16, <1>17 DEF MonInv

\* The second frame is received, and the handler called.
LEMMA MonRecvAddress ==
  ASSUME MonInv, M!recv_address, "timeout" \notin MonitorRaces, "BIND_FAILED" \notin Reported
  PROVE  MonInv'
<1> DEFINE n == Len(pipe)
           g == Len(got)
           r == Len(reported)
           hd == [handler |-> IF first.part = "event" THEN M!handler(first.event) ELSE "UNKNOWN",
                  id |-> first.id, address |-> pipe[1].id]
<1>1. /\ client \in {"polling", "draining"} /\ first # M!NoFrame
      /\ pipe # <<>> /\ first' = M!NoFrame /\ pipe' = Tail(pipe)
      /\ UNCHANGED <<monitor_events, pair, partial, emitting, reported, client>>
  BY DEF M!recv_address, M!Dispatch
<1>2. /\ pipe \in Seq(Frames) /\ Len(pipe) \in Nat /\ Len(got) \in Nat /\ got \in Seq(Handled)
      /\ first \in Frames /\ Len(reported) \in Nat
  BY <1>1, LenProperties DEF MonInv, MonTypeOK
<1>3. /\ pipe' \in Seq(Frames) /\ Len(pipe') = n - 1 /\ n \in Nat \ {0}
      /\ Head(pipe) = pipe[1] /\ pipe[1] \in Frames
      /\ \A i \in 1 .. n - 1 : pipe'[i] = pipe[i + 1]
  BY <1>1, <1>2, OneLess
<1>4. got' = Append(got, hd)
  BY <1>1, <1>3 DEF M!recv_address, M!Dispatch
<1>5. hd \in Handled
  <2>1. first.event \in Events \cup {"none"} /\ first.id \in Nat /\ pipe[1].id \in Nat
    BY <1>2, <1>3 DEF Frames
  <2> QED
    BY <2>1 DEF Handled
<1>6. MonTypeOK'
  <2>1. got' \in Seq(Handled)
    BY <1>2, <1>4, <1>5, AppendProperties
  <2>2. first' \in Frames \cup {M!NoFrame}
    BY <1>1
  <2> QED
    BY <1>1, <1>3, <2>1, <2>2 DEF MonInv, MonTypeOK, Events, Frames, Handled
<1>7. OneEmits'
  BY <1>1 DEF MonInv, OneEmits
<1>8. Stream
  BY <1>1 DEF MonInv
<1>9. PICK mm \in Nat : StreamOf(mm) /\ (Writing => Len(got) + mm = Behind)
  BY <1>8 DEF Stream
<1>10. Half = 1 /\ Half' = 0
  BY <1>1 DEF Half
<1> HIDE DEF n, g, r
<1>11. n \in Nat /\ g \in Nat /\ r \in Nat
  BY <1>2 DEF n, g, r
<1>12. /\ n + 1 = 2 * mm /\ g + mm <= Behind /\ (Writing => g + mm = Behind) /\ mm > 0 /\ first = Fr("event", g + 1)
       /\ \A k \in 1 .. mm : /\ 2 * k - 1 - 1 > 0 => pipe[2 * k - 1 - 1] = Fr("event", g + k)
                             /\ pipe[2 * k - 1] = Fr("address", g + k)
  BY <1>1, <1>9, <1>10 DEF StreamOf, n, g
<1>13. pipe[1] = Fr("address", g + 1)
  <2>1. 1 \in 1 .. mm /\ 2 * 1 - 1 = 1
    BY <1>12
  <2> QED
    BY <1>12, <2>1
<1>14. hd = [handler |-> M!handler(reported[g + 1]), id |-> g + 1, address |-> g + 1]
  BY <1>12, <1>13 DEF Fr
<1>23. g + 1 <= r
  <2>1. Behind \in {r, r - 1} /\ Behind <= r
    BY <1>11 DEF Behind, r
  <2> QED
    BY <1>11, <1>12, <2>1
<1>24. M!handler(reported[g + 1]) = reported[g + 1]
  <2>1. reported[g + 1] \in Events
    BY <1>11, <1>23 DEF MonInv, MonTypeOK, r
  <2> QED
    BY <2>1 DEF M!handler, Events, M!STOPPED
<1> HIDE DEF hd
<1>15. /\ Len(got') = g + 1 /\ got'[g + 1] = hd
       /\ \A i \in 1 .. g : got'[i] = got[i]
  BY <1>2, <1>4, <1>5, AppendProperties DEF g
<1>16. /\ \A part, i : Fr(part, i)' = Fr(part, i)
       /\ Behind' = Behind
  BY <1>1 DEF Fr, Behind, Sending
<1>17. ASSUME NEW k \in 1 .. mm - 1
       PROVE  /\ pipe'[2 * k - 1] = Fr("event", g + 1 + k)
              /\ pipe'[2 * k] = Fr("address", g + 1 + k)
  <2>1. k + 1 \in 1 .. mm /\ 2 * (k + 1) - 1 - 1 = 2 * k /\ 2 * (k + 1) - 1 = 2 * k + 1
        /\ g + (k + 1) = g + 1 + k /\ 2 * k > 0
    BY <1>11
  <2>2. pipe[2 * k] = Fr("event", g + 1 + k) /\ pipe[2 * k + 1] = Fr("address", g + 1 + k)
    BY <1>12, <2>1
  <2>3. 2 * k - 1 \in 1 .. n - 1 /\ 2 * k - 1 + 1 = 2 * k /\ 2 * k \in 1 .. n - 1
    BY <1>11, <1>12
  <2> QED
    BY <1>3, <2>2, <2>3
<1>18. StreamOf(mm - 1)'
  <2>1. Len(pipe') + 0 = 2 * (mm - 1) /\ g + 1 + (mm - 1) <= Behind
    <3>1. g + mm <= Behind
      BY <1>12
    <3>2. g + 1 + (mm - 1) = g + mm
      BY <1>11
    <3>3. Len(pipe') = 2 * (mm - 1)
      BY <1>3, <1>11, <1>12
    <3> QED
      BY <3>1, <3>2, <3>3
  <2>2. \A k \in 1 .. mm - 1 : 2 * k - 1 - 0 = 2 * k - 1 /\ 2 * k - 0 = 2 * k
    OBVIOUS
  <2>3. \A k \in 1 .. mm - 1 : /\ pipe'[2 * k - 1 - 0] = Fr("event", g + 1 + k)
                               /\ pipe'[2 * k - 0] = Fr("address", g + 1 + k)
    BY <1>17, <2>2
  <2> QED
    BY <1>1, <1>10, <1>15, <1>16, <2>1, <2>3 DEF StreamOf
<1>19. mm - 1 \in Nat
  BY <1>12
<1>20. Stream'
  <2>1. Writing' = Writing /\ (FramesWritten => FramesWritten')
    BY <1>1 DEF Writing, FramesWritten, Sending, Fr
  <2>2. Len(got') + (mm - 1) = g + mm
    BY <1>11, <1>15
  <2> QED
    BY <1>8, <1>12, <1>16, <1>18, <1>19, <2>1, <2>2 DEF Stream
<1>22. M!EventsTrue' /\ Len(got)' <= Len(reported)'
  <2>1. Len(got') <= Len(reported')
    BY <1>1, <1>15, <1>23 DEF r
  <2>2. got' \in Seq(Handled) /\ DOMAIN got' = 1 .. g + 1
    BY <1>6, <1>15, LenProperties DEF MonTypeOK
  <2>3. ASSUME NEW i \in 1 .. g
        PROVE  /\ got'[i].id = i /\ got'[i].address = i
               /\ got'[i].handler = reported[i]
    <3>1. i \in DOMAIN got
      BY <1>2, LenProperties DEF g
    <3> QED
      BY <1>15, <3>1 DEF MonInv, M!EventsTrue
  <2>4. /\ got'[g + 1].id = g + 1 /\ got'[g + 1].address = g + 1
        /\ got'[g + 1].handler = reported[g + 1]
    BY <1>14, <1>15, <1>24
  <2>5. \A i \in 1 .. g + 1 : /\ got'[i].id = i /\ got'[i].address = i
                              /\ got'[i].handler = reported[i]
    <3>1. \A i \in 1 .. g + 1 : i \in 1 .. g \/ i = g + 1
      BY <1>11
    <3> QED
      BY <2>3, <2>4, <3>1
  <2> QED
    BY <1>1, <2>1, <2>2, <2>5 DEF M!EventsTrue
<1> QED
  BY <1>6, <1>7, <1>20, <1>22 DEF MonInv

\* The library's side reports that it stops...
LEMMA MonStop ==
  ASSUME MonInv, NEW t \in M!Stoppers, M!stop_monitor(t), "two threads" \notin MonitorRaces
  PROVE  MonInv'
<1>1. /\ t \in M!Threads
      /\ UNCHANGED <<monitor_events, pair, pipe, partial, client, first, got>>
  BY DEF M!stop_monitor, M!Threads
<1>2. \A u \in M!Threads : emitting[u] = M!None
  BY DEF M!stop_monitor, M!Stops, M!Alone
<1>3. emitting \in [M!Threads -> [at : {"idle", "event", "address", "sent"},
                                   event : Events \cup {"none"}, id : Nat]]
  BY DEF MonInv, MonTypeOK
<1>4. CASE M!Starts(t, M!STOPPED)
  BY <1>1, <1>2, <1>4, MonStarts DEF Events
<1>5. CASE emitting' = [emitting EXCEPT ![t].at = "sent"] /\ UNCHANGED reported
  <2>1. /\ emitting'[t].at = "sent" /\ emitting'[t] \in [at : {"idle", "event", "address", "sent"},
                                                         event : Events \cup {"none"}, id : Nat]
        /\ \A u \in M!Threads : u # t => emitting'[u] = M!None
    <3>1. \A u \in M!Threads : u # t => emitting'[u] = emitting[u]
      BY <1>1, <1>3, <1>5
    <3>2. emitting'[t] = [emitting[t] EXCEPT !.at = "sent"]
      BY <1>1, <1>3, <1>5
    <3>3. emitting[t] \in [at : {"idle", "event", "address", "sent"}, event : Events \cup {"none"}, id : Nat]
      BY <1>1, <1>3
    <3> QED
      BY <1>2, <3>1, <3>2, <3>3
  <2>2. emitting' \in [M!Threads -> [at : {"idle", "event", "address", "sent"},
                                     event : Events \cup {"none"}, id : Nat]]
    BY <1>1, <1>3, <1>5, <2>1
  <2>3. MonTypeOK'
    BY <1>1, <1>5, <2>2 DEF MonInv, MonTypeOK, Events, Frames, Handled
  <2>4. OneEmits'
    BY <2>1 DEF OneEmits
  <2>5. Stream => Stream'
    <3>1. \A u \in M!Threads : /\ ~ Sending(u) /\ ~ Sending(u)'
                               /\ emitting[u].at # "address" /\ emitting'[u].at # "address"
      <4>1. M!None.at = "idle"
        BY DEF M!None
      <4>2. \A u \in M!Threads : emitting[u].at = "idle" /\ emitting'[u].at \in {"idle", "sent"}
        BY <1>2, <2>1, <4>1
      <4> QED
        BY <4>2 DEF Sending
    <3>2. Behind' = Behind
      BY <1>5, <3>1 DEF Behind
    <3>3. \A mm \in Nat : StreamOf(mm) => StreamOf(mm)'
      BY <1>1, <1>5, <3>2 DEF StreamOf, Half, Fr
    <3>4. Writing' = Writing /\ (FramesWritten => FramesWritten') /\ Len(got') = Len(got)
      BY <1>1, <1>5, <3>1 DEF Writing, FramesWritten, Fr
    <3> QED
      BY <3>2, <3>3, <3>4 DEF Stream
  <2>6. M!EventsTrue' /\ Len(got)' <= Len(reported)' /\ client' = client
    BY <1>1, <1>5 DEF MonInv, M!EventsTrue
  <2> QED
    BY <2>3, <2>4, <2>5, <2>6 DEF MonInv
<1> QED
  BY <1>4, <1>5 DEF M!stop_monitor

\* ... and its PAIR is closed; nothing is written by then that was not flushed.
LEMMA MonStopped ==
  ASSUME MonInv, NEW s \in M!Stoppers, M!stopped_monitor(s)
  PROVE  MonInv'
<1>1. /\ emitting[s].at = "sent" /\ emitting' = [emitting EXCEPT ![s] = M!None]
      /\ monitor_events' = {} /\ pair' = [pair EXCEPT !.peer = FALSE] /\ partial' = <<>>
      /\ UNCHANGED <<pipe, reported, client, first, got>> /\ s \in M!Threads
  BY DEF M!stopped_monitor, M!Threads
<1>2. /\ emitting \in [M!Threads -> [at : {"idle", "event", "address", "sent"},
                                     event : Events \cup {"none"}, id : Nat]]
      /\ pair \in Pair
  BY DEF MonInv, MonTypeOK
<1>3. \A t \in M!Threads : emitting'[t] = M!None
  <2>1. emitting[s] # M!None
    BY <1>1 DEF M!None
  <2>2. \A t \in M!Threads : t # s => emitting[t] = M!None
    BY <1>1, <2>1 DEF MonInv, OneEmits
  <2> QED
    BY <1>1, <1>2, <2>2
<1>4. \A t \in M!Threads : ~ Sending(t) /\ emitting[t].at # "address"
  <2>1. \A t \in M!Threads : t # s => emitting[t] = M!None
    BY <1>1 DEF MonInv, OneEmits, M!None
  <2> QED
    BY <1>1, <2>1 DEF Sending, M!None
<1>5. MonTypeOK'
  <2>1. emitting' \in [M!Threads -> [at : {"idle", "event", "address", "sent"},
                                     event : Events \cup {"none"}, id : Nat]]
    BY <1>1, <1>2 DEF M!None
  <2>2. pair' \in Pair
    BY <1>1, <1>2 DEF Pair
  <2>3. partial' \in Seq(Frames)
    BY <1>1
  <2> QED
    BY <1>1, <2>1, <2>2, <2>3 DEF MonInv, MonTypeOK, Events, Frames, Handled
<1>6. OneEmits'
  BY <1>3 DEF OneEmits
<1>7. Stream => Stream'
  <2>1. \A t \in M!Threads : ~ Sending(t)' /\ emitting'[t].at # "address"
    BY <1>3 DEF Sending, M!None
  <2>2. Behind' = Behind
    BY <1>1, <1>4, <2>1 DEF Behind
  <2>3. \A mm \in Nat : StreamOf(mm) => StreamOf(mm)'
    BY <1>1, <2>2 DEF StreamOf, Half, Fr
  <2>4. (Writing' => Writing) /\ Len(got') = Len(got) /\ FramesWritten'
    BY <1>1, <1>2, <2>1 DEF Writing, FramesWritten, Pair
  <2> QED
    BY <2>2, <2>3, <2>4 DEF Stream
<1>8. client' = client
  BY <1>1
<1>9. M!EventsTrue' /\ Len(got)' <= Len(reported)'
  BY <1>1 DEF MonInv, M!EventsTrue
<1> QED
  BY <1>5, <1>6, <1>7, <1>8, <1>9 DEF MonInv

\* The Monitor is destroyed and reads no more.
LEMMA MonClose ==
  ASSUME MonInv, M!Close
  PROVE  MonInv'
<1>1. /\ client' = "closed" /\ pair' = [pair EXCEPT !.peer = FALSE] /\ pipe' = <<>>
      /\ first' = M!NoFrame
      /\ UNCHANGED <<monitor_events, partial, emitting, reported, got>>
  BY DEF M!Close
<1>2. MonTypeOK'
  <2>1. pair \in Pair
    BY DEF MonInv, MonTypeOK
  <2>2. pair' \in Pair
    BY <1>1, <2>1 DEF Pair
  <2>3. pipe' \in Seq(Frames)
    BY <1>1
  <2> QED
    BY <1>1, <2>2, <2>3 DEF MonInv, MonTypeOK, Events, Frames, Handled
<1>3. OneEmits'
  BY <1>1 DEF MonInv, OneEmits
<1>4. client' = "closed"
  BY <1>1
<1>5. M!EventsTrue' /\ Len(got)' <= Len(reported)'
  BY <1>1 DEF MonInv, M!EventsTrue
<1> QED
  BY <1>2, <1>3, <1>4, <1>5 DEF MonInv

\* Every step of the library, the reaper and the client.
LEMMA NextMon ==
  ASSUME MonInv, M!MonitorNext, MonitorRaces \cap {"two threads", "timeout"} = {},
         "BIND_FAILED" \notin Reported
  PROVE  MonInv'
<1>1. ASSUME NEW t \in IoThreads, NEW event \in Reported, M!event_(t, event)
      PROVE  MonInv'
  <2>1. \A u \in M!Threads : emitting[u] = M!None
    BY <1>1 DEF M!event_, M!Alone
  <2>2. event \in Events /\ t \in M!Threads
    BY DEF Events, M!Threads
  <2>3. M!Starts(t, event) /\ UNCHANGED <<monitor_events, pair, pipe, partial, client, first, got>>
    BY <1>1 DEF M!event_
  <2> QED
    BY <2>1, <2>2, <2>3, MonStarts
<1>2. ASSUME NEW t \in M!Threads, M!EmitterStep(t)
      PROVE  MonInv'
  BY <1>2, MonSendEvent, MonSendAddress DEF M!EmitterStep
<1>3. ASSUME NEW t \in M!Stoppers, M!StopperStep(t)
      PROVE  MonInv'
  BY <1>3, MonStop, MonStopped DEF M!StopperStep
<1>4. pair \in Pair /\ monitor_events \subseteq Events
  BY DEF MonInv, MonTypeOK
<1>5. CASE M!context_stops
  <2>1. pair' \in Pair /\ (Writing' => Writing)
    BY <1>4, <1>5 DEF M!context_stops, Writing, Pair
  <2> QED
    BY <1>4, <1>5, <2>1, MonQuiet DEF M!context_stops
<1>6. CASE M!monitor
  <2>1. Writing' => Writing
    BY <1>6 DEF M!monitor, Writing
  <2> QED
    BY <1>4, <1>6, <2>1, MonQuiet DEF M!monitor, Events
<1>7. CASE M!SetSocket
  <2>1. pair' \in Pair /\ (Writing' => Writing)
    BY <1>4, <1>7 DEF M!SetSocket, Writing, Pair
  <2> QED
    BY <1>4, <1>7, <2>1, MonQuiet DEF M!SetSocket
<1>8. CASE M!close_socket
  <2>1. Writing' => Writing
    BY <1>8 DEF M!close_socket, Writing
  <2> QED
    BY <1>4, <1>8, <2>1, MonQuiet DEF M!close_socket
<1>9. CASE M!recv_event
  BY <1>9, MonRecvEvent
<1>10. CASE M!recv_address
  BY <1>10, MonRecvAddress
<1>11. CASE M!Close
  BY <1>11, MonClose
<1> QED
  BY <1>1, <1>2, <1>3, <1>5, <1>6, <1>7, <1>8, <1>9, <1>10, <1>11
     DEF M!MonitorNext, M!ClientStep

\* The handlers of a Monitor are given the events that were reported, each once,
\* in their order and with the address it was reported with, whatever the
\* events, the threads and the watermark, and wherever the context's stop comes:
\* unless two threads are in the monitor at once, a receive of MonitorRecv times out, or
\* a BIND_FAILED is reported.
THEOREM EventsTrueAlways ==
  ASSUME MonitorRaces \cap {"two threads", "timeout"} = {}, "BIND_FAILED" \notin Reported
  PROVE  MCSpec => []EventsTrue
<1> DEFINE Inv == model = "monitor" => MonInv
<1>1. MCInit => Inv
  BY InitMon DEF MCInit
<1>2. Inv /\ [MCNext]_vars => Inv'
  <2> SUFFICES ASSUME Inv, [MCNext]_vars, model' = "monitor" PROVE MonInv'
    OBVIOUS
  <2>1. CASE M!MonitorNext /\ model = "monitor"
    BY <2>1, NextMon
  <2>2. CASE model = "monitor" /\ UNCHANGED monitorVars
    <3>1. UNCHANGED <<pipe, partial, emitting, reported, first, got, monitor_events, pair, client>>
      BY <2>2 DEF monitorVars
    <3>2. /\ monitor_events' \subseteq Events /\ pair' \in Pair
          /\ (Writing' => Writing)
      BY <2>2, <3>1 DEF MonInv, MonTypeOK, Writing
    <3> QED
      BY <2>2, <3>1, <3>2, MonQuiet
  <2>3. model = "monitor" /\ (M!MonitorNext \/ UNCHANGED monitorVars)
    BY DEF MCNext, vars
  <2> QED
    BY <2>1, <2>2, <2>3
<1>3. Inv => EventsTrue
  BY DEF EventsTrue, MonInv
<1> QED
  BY <1>1, <1>2, <1>3, PTL DEF MCSpec

-----------------------------------------------------------------------------
(* Listener.                                                               *)

ConStates == {"start", "start_delayed", "timer", "polling", "attached", "closed"}
Places == Addresses \cup {CHOOSE a \in Addresses : TRUE}

ListenTypeOK ==
  /\ lis \in [Listeners -> [state : {"new", "failed", "bound", "plugged", "terminating", "gone"},
                            addr : Places, s : L!Fds \cup {L!retired_fd}, has_file : BOOLEAN]]
  /\ name \in [Addresses -> Listeners \cup {"nobody", "stale"}]
  /\ backlog \in [Listeners -> Seq(Clients)]
  /\ con \in [Clients -> [state : ConStates, addr : Addresses]]
  /\ engine \in [Clients -> L!Fds \cup {L!retired_fd}]
  /\ fds \in SUBSET L!Fds /\ failed = FALSE

\* An open descriptor has a holder, and a holder has an open descriptor; only the
\* listeners that were bound and the engines hold one, no two the same.
HeldOnce ==
  /\ \A l \in Listeners : /\ lis[l].s # L!retired_fd => L!Listens(l) /\ lis[l].s \in fds
                          /\ L!Listens(l) => lis[l].addr \in Addresses
  /\ \A c \in Clients : engine[c] # L!retired_fd => engine[c] \in fds
  /\ \A f \in fds : (\E l \in Listeners : lis[l].s = f) \/ (\E c \in Clients : engine[c] = f)
  /\ \A k, l \in Listeners : lis[k].s = lis[l].s /\ lis[k].s # L!retired_fd => k = l
  /\ \A c, d \in Clients : engine[c] = engine[d] /\ engine[c] # L!retired_fd => c = d
  /\ \A l \in Listeners, c \in Clients : lis[l].s = engine[c] => engine[c] = L!retired_fd

\* A client waits in one backlog or is served, and only one whose connecter has
\* come through: the engine it may be given is its only one.
Waits(l, c) == \E i \in 1 .. Len(backlog[l]) : backlog[l][i] = c
NoRepeat(q) == \A i, j \in 1 .. Len(q) : q[i] = q[j] => i = j
ServedOnce ==
  /\ \A c \in Clients : engine[c] # L!retired_fd => con[c].state = "attached"
  /\ \A l \in Listeners, c \in Clients :
       Waits(l, c) => con[c].state = "attached" /\ engine[c] = L!retired_fd
  /\ \A l \in Listeners : NoRepeat(backlog[l])
  /\ \A k, l \in Listeners, c \in Clients : Waits(k, c) /\ Waits(l, c) => k = l

\* No two listeners have the same ipc file.
OneFile ==
  \A k, l \in Listeners :
    L!Listens(k) /\ L!Listens(l) /\ lis[k].addr = lis[l].addr => k = l \/ L!Protocol(lis[k].addr) = "tcp"

ListenInv == ListenTypeOK /\ HeldOnce /\ ServedOnce /\ OneFile

\* A set of natural numbers has a least element.
LEMMA LeastNumber ==
  ASSUME NEW T \in SUBSET Nat, T # {}
  PROVE  \E x \in T : \A y \in T : x <= y
<1>1. IsWellFoundedOn(OpToRel(<, Nat), Nat)
  BY NatLessThanWellFounded
<1>2. PICK x \in T : \A y \in T : ~ (<<y, x>> \in OpToRel(<, Nat))
  BY <1>1, WFMin
<1>3. \A y \in T : ~ (y < x)
  BY <1>2 DEF OpToRel
<1> QED
  BY <1>3

\* A retired descriptor is none.
LEMMA NotRetired == L!retired_fd \notin L!Fds /\ L!Fds \subseteq Nat
  BY CallsAssumption DEF L!retired_fd, L!Fds

\* The descriptor that is opened is a free one.
LEMMA SmallestFree ==
  ASSUME L!Free # {}
  PROVE  /\ L!Smallest(L!Free) \in L!Fds /\ L!Smallest(L!Free) \notin fds
         /\ L!Smallest(L!Free) # L!retired_fd
<1>1. L!Free \in SUBSET Nat
  BY NotRetired DEF L!Free
<1>2. \E f \in L!Free : \A g \in L!Free : f <= g
  BY <1>1, LeastNumber
<1>3. L!Smallest(L!Free) \in L!Free
  BY <1>2 DEF L!Smallest
<1> QED
  BY <1>3, NotRetired DEF L!Free

\* The instance counts elements as this module does.
LEMMA ListenCardinality == ASSUME NEW T PROVE L!Cardinality(T) = Cardinality(T)
  BY DEF L!Cardinality, Cardinality

\* In the invariant an open descriptor has one holder and a closed one none.
LEMMA HeldCounts ==
  ASSUME ListenTypeOK, HeldOnce
  PROVE  L!FdsHeld
<1>1. L!AcceptIgnores
  BY DEF ListenTypeOK, L!AcceptIgnores
<1>2. ASSUME NEW f \in L!Fds
      PROVE  L!Cardinality(L!Holders(f)) = IF f \in fds THEN 1 ELSE 0
  <2>1. f # L!retired_fd
    BY NotRetired
  <2>2. CASE f \notin fds
    <3>1. L!Holders(f) = {}
      BY <2>1, <2>2 DEF HeldOnce, L!Holders
    <3> QED
      BY <2>2, <3>1, FS_EmptySet, ListenCardinality
  <2>3. CASE f \in fds
    <3>1. \E h : L!Holders(f) = {h}
      <4>1. CASE \E l \in Listeners : lis[l].s = f
        <5>1. PICK l \in Listeners : lis[l].s = f
          BY <4>1
        <5>2. {k \in Listeners : lis[k].s = f} = {l}
          BY <2>1, <5>1 DEF HeldOnce
        <5>3. {d \in Clients : engine[d] = f} = {}
          BY <2>1, <5>1 DEF HeldOnce
        <5>4. L!Holders(f) = {<<"listener", l>>}
          BY <5>2, <5>3 DEF L!Holders
        <5> QED
          BY <5>4
      <4>2. CASE ~ \E l \in Listeners : lis[l].s = f
        <5>1. PICK c \in Clients : engine[c] = f
          BY <2>3, <4>2 DEF HeldOnce
        <5>2. {k \in Listeners : lis[k].s = f} = {}
          BY <4>2
        <5>3. {d \in Clients : engine[d] = f} = {c}
          BY <2>1, <5>1 DEF HeldOnce
        <5>4. L!Holders(f) = {<<"engine", c>>}
          BY <5>2, <5>3 DEF L!Holders
        <5> QED
          BY <5>4
      <4> QED
        BY <4>1, <4>2
    <3> QED
      BY <2>3, <3>1, FS_Singleton, ListenCardinality
  <2> QED
    BY <2>2, <2>3
<1> QED
  BY <1>1, <1>2 DEF L!FdsHeld

\* Nothing has happened yet.
LEMMA InitListen ==
  ASSUME L!ListenInit
  PROVE  ListenInv
<1>1. /\ lis = [l \in Listeners |-> [state |-> "new", addr |-> CHOOSE a \in Addresses : TRUE,
                                     s |-> L!retired_fd, has_file |-> FALSE]]
      /\ name \in [Addresses -> {"nobody", "stale"}] /\ backlog = [l \in Listeners |-> <<>>]
      /\ con \in [Clients -> [state : {"start"}, addr : Addresses]]
      /\ engine = [c \in Clients |-> L!retired_fd] /\ fds = {} /\ failed = FALSE
  BY DEF L!ListenInit
<1>2. ListenTypeOK
  <2>1. \A l \in Listeners :
          [state |-> "new", addr |-> CHOOSE a \in Addresses : TRUE, s |-> L!retired_fd,
           has_file |-> FALSE]
          \in [state : {"new", "failed", "bound", "plugged", "terminating", "gone"},
               addr : Places, s : L!Fds \cup {L!retired_fd}, has_file : BOOLEAN]
    BY DEF Places
  <2>2. \A c \in Clients : con[c] \in [state : ConStates, addr : Addresses]
    BY <1>1 DEF ConStates
  <2>3. con \in [Clients -> [state : ConStates, addr : Addresses]]
    BY <1>1, <2>2
  <2> QED
    BY <1>1, <2>1, <2>3 DEF ListenTypeOK
<1>3. \A l \in Listeners : /\ ~ L!Listens(l) /\ lis[l].s = L!retired_fd
                           /\ Len(backlog[l]) = 0
  BY <1>1 DEF L!Listens
<1>4. \A c \in Clients : engine[c] = L!retired_fd
  BY <1>1
<1>5. HeldOnce /\ OneFile
  BY <1>1, <1>3, <1>4 DEF HeldOnce, OneFile
<1>6. \A l \in Listeners : ~ (\E i : i \in 1 .. Len(backlog[l]))
  BY <1>3
<1>7. ServedOnce
  BY <1>4, <1>6 DEF ServedOnce, Waits, NoRepeat
<1> QED
  BY <1>2, <1>5, <1>7 DEF ListenInv

\* A listener takes an address or a step towards its end; no descriptor is opened
\* or closed.
LEMMA ListenerMoves ==
  ASSUME ListenInv, NEW l \in Listeners,
         NEW rec \in [state : {"new", "failed", "bound", "plugged", "terminating", "gone"},
                      addr : Places, s : L!Fds \cup {L!retired_fd}, has_file : BOOLEAN],
         lis' = [lis EXCEPT ![l] = rec], rec.s = lis[l].s,
         \/ /\ L!Listens(l) /\ rec.addr = lis[l].addr
            /\ rec.state \in {"bound", "plugged", "terminating"}
         \/ ~ L!Listens(l) /\ rec.state \notin {"bound", "plugged", "terminating"},
         name' \in [Addresses -> Listeners \cup {"nobody", "stale"}],
         UNCHANGED <<backlog, con, engine, fds, failed>>
  PROVE  ListenInv'
<1>1. lis \in [Listeners -> [state : {"new", "failed", "bound", "plugged", "terminating", "gone"},
                             addr : Places, s : L!Fds \cup {L!retired_fd}, has_file : BOOLEAN]]
  BY DEF ListenInv, ListenTypeOK
<1>2. ListenTypeOK'
  <2>1. lis' \in [Listeners -> [state : {"new", "failed", "bound", "plugged", "terminating", "gone"},
                               addr : Places, s : L!Fds \cup {L!retired_fd}, has_file : BOOLEAN]]
    BY <1>1
  <2> QED
    BY <2>1 DEF ListenInv, ListenTypeOK
<1>3. lis'[l] = rec /\ \A k \in Listeners : k # l => lis'[k] = lis[k]
  BY <1>1
<1>4. /\ \A k \in Listeners : lis'[k].s = lis[k].s
      /\ \A k \in Listeners : L!Listens(k)' = L!Listens(k)
      /\ \A k \in Listeners : L!Listens(k) => lis'[k].addr = lis[k].addr
  BY <1>3 DEF L!Listens
<1>5. HeldOnce'
  BY <1>4 DEF ListenInv, HeldOnce
<1>6. ServedOnce'
  BY DEF ListenInv, ServedOnce, Waits
<1>7. OneFile'
  BY <1>4 DEF ListenInv, OneFile
<1> QED
  BY <1>2, <1>5, <1>6, <1>7 DEF ListenInv

\* The call of bind fails or gives the listener a descriptor that was free.
LEMMA ListenBind ==
  ASSUME ListenInv, NEW l \in Listeners, NEW a \in Addresses, NEW ok \in BOOLEAN,
         L!bind(l, a, ok), "rebind" \notin ListenRaces
  PROVE  ListenInv'
<1>1. /\ lis[l].state = "new" /\ UNCHANGED <<backlog, con, engine, failed>>
      /\ L!Protocol(a) = "tcp" \/ \A k \in Listeners : L!Listens(k) => lis[k].addr # a
  BY DEF L!bind
<1>2. lis \in [Listeners -> [state : {"new", "failed", "bound", "plugged", "terminating", "gone"},
                             addr : Places, s : L!Fds \cup {L!retired_fd}, has_file : BOOLEAN]]
  BY DEF ListenInv, ListenTypeOK
<1>3. name \in [Addresses -> Listeners \cup {"nobody", "stale"}]
  BY DEF ListenInv, ListenTypeOK
<1>4. a \in Places /\ ~ L!Listens(l)
  BY <1>1 DEF Places, L!Listens
<1>5. \/ \E names \in [Addresses -> Listeners \cup {"nobody", "stale"}] : L!Fails(l, a, names)
      \/ /\ L!Free # {}
         /\ L!Succeeds(l, a, L!Smallest(L!Free), [name EXCEPT ![a] = l])
  <2>1. [name EXCEPT ![a] = "nobody"] \in [Addresses -> Listeners \cup {"nobody", "stale"}]
    BY <1>3
  <2>2. L!set_address_tcp(l, a, ok) \/ L!set_address_ipc(l, a, ok)
    BY DEF L!bind
  <2>3. CASE L!set_address_tcp(l, a, ok)
    BY <1>3, <2>3 DEF L!set_address_tcp
  <2>4. CASE L!set_address_ipc(l, a, ok)
    BY <2>1, <2>4 DEF L!set_address_ipc
  <2> QED
    BY <2>2, <2>3, <2>4
<1>6. ASSUME NEW names \in [Addresses -> Listeners \cup {"nobody", "stale"}], L!Fails(l, a, names)
      PROVE  ListenInv'
  <2> DEFINE rec == [lis[l] EXCEPT !.state = "failed", !.addr = a]
  <2>1. /\ rec \in [state : {"new", "failed", "bound", "plugged", "terminating", "gone"},
                    addr : Places, s : L!Fds \cup {L!retired_fd}, has_file : BOOLEAN]
        /\ rec.s = lis[l].s /\ rec.state = "failed"
    BY <1>2, <1>4
  <2>2. lis' = [lis EXCEPT ![l] = rec] /\ name' = names /\ fds' = fds
    <3>1. lis' = [lis EXCEPT ![l].state = "failed", ![l].addr = a] /\ name' = names /\ fds' = fds
      BY <1>6 DEF L!Fails
    <3>2. [lis EXCEPT ![l].state = "failed", ![l].addr = a] = [lis EXCEPT ![l] = rec]
      BY <1>2
    <3> QED
      BY <3>1, <3>2
  <2> HIDE DEF rec
  <2>3. ~ L!Listens(l) /\ rec.state \notin {"bound", "plugged", "terminating"}
    BY <1>4, <2>1
  <2> QED
    BY <1>1, <1>6, <2>1, <2>2, <2>3, ListenerMoves
<1>7. CASE /\ L!Free # {}
           /\ L!Succeeds(l, a, L!Smallest(L!Free), [name EXCEPT ![a] = l])
  <2> DEFINE f == L!Smallest(L!Free)
  <2>1. f \in L!Fds /\ f \notin fds /\ f # L!retired_fd
    BY <1>7, SmallestFree
  <2>2. /\ lis' = [lis EXCEPT ![l] = [state |-> "bound", addr |-> a, s |-> f,
                                      has_file |-> L!Protocol(a) = "ipc"]]
        /\ name' = [name EXCEPT ![a] = l] /\ fds' = fds \cup {f}
    BY <1>7 DEF L!Succeeds
  <2> HIDE DEF f
  <2>3. /\ lis'[l] = [state |-> "bound", addr |-> a, s |-> f, has_file |-> L!Protocol(a) = "ipc"]
        /\ \A k \in Listeners : k # l => lis'[k] = lis[k]
    BY <1>2, <2>2
  <2>4. ListenTypeOK'
    <3>1. [state |-> "bound", addr |-> a, s |-> f, has_file |-> L!Protocol(a) = "ipc"]
          \in [state : {"new", "failed", "bound", "plugged", "terminating", "gone"},
               addr : Places, s : L!Fds \cup {L!retired_fd}, has_file : BOOLEAN]
      BY <1>4, <2>1
    <3>2. lis' \in [Listeners -> [state : {"new", "failed", "bound", "plugged", "terminating", "gone"},
                                  addr : Places, s : L!Fds \cup {L!retired_fd}, has_file : BOOLEAN]]
      BY <1>2, <2>2, <3>1
    <3>3. name' \in [Addresses -> Listeners \cup {"nobody", "stale"}] /\ fds' \in SUBSET L!Fds
      BY <1>3, <2>1, <2>2 DEF ListenInv, ListenTypeOK
    <3> QED
      BY <1>1, <3>2, <3>3 DEF ListenInv, ListenTypeOK
  <2>5. HeldOnce'
    <3>1. /\ \A k \in Listeners : lis[k].s # L!retired_fd => L!Listens(k) /\ lis[k].s \in fds
          /\ \A k \in Listeners : L!Listens(k) => lis[k].addr \in Addresses
          /\ \A c \in Clients : engine[c] # L!retired_fd => engine[c] \in fds
          /\ \A g \in fds : (\E k \in Listeners : lis[k].s = g) \/ (\E c \in Clients : engine[c] = g)
          /\ \A j, k \in Listeners : lis[j].s = lis[k].s /\ lis[j].s # L!retired_fd => j = k
          /\ \A c, d \in Clients : engine[c] = engine[d] /\ engine[c] # L!retired_fd => c = d
          /\ \A k \in Listeners, c \in Clients : lis[k].s = engine[c] => engine[c] = L!retired_fd
      BY DEF ListenInv, HeldOnce
    <3>2. lis[l].s = L!retired_fd /\ f \notin fds
      BY <1>4, <2>1, <3>1
    <3>3. /\ lis'[l].s = f /\ lis'[l].addr = a
          /\ \A k \in Listeners : k # l => lis'[k].s = lis[k].s /\ lis'[k].addr = lis[k].addr
          /\ L!Listens(l)' /\ \A k \in Listeners : k # l => (L!Listens(k)' <=> L!Listens(k))
      BY <2>3 DEF L!Listens
    <3>4. engine' = engine /\ fds' = fds \cup {f}
      BY <1>1, <2>2
    <3>5. \A k \in Listeners : /\ lis'[k].s # L!retired_fd => L!Listens(k)' /\ lis'[k].s \in fds'
                               /\ L!Listens(k)' => lis'[k].addr \in Addresses
      BY <3>1, <3>3, <3>4
    <3>6. \A g \in fds' : (\E k \in Listeners : lis'[k].s = g) \/ (\E c \in Clients : engine'[c] = g)
      <4>1. \A g \in fds : g # L!retired_fd
        BY NotRetired DEF ListenInv, ListenTypeOK
      <4> QED
        BY <3>1, <3>2, <3>3, <3>4, <4>1
    <3>7. \A j, k \in Listeners : lis'[j].s = lis'[k].s /\ lis'[j].s # L!retired_fd => j = k
      BY <3>1, <3>2, <3>3
    <3>8. \A k \in Listeners, c \in Clients : lis'[k].s = engine'[c] => engine'[c] = L!retired_fd
      BY <3>1, <3>2, <3>3, <3>4
    <3>9. \A c \in Clients : engine'[c] # L!retired_fd => engine'[c] \in fds'
      BY <3>1, <3>4
    <3>10. \A c, d \in Clients : engine'[c] = engine'[d] /\ engine'[c] # L!retired_fd => c = d
      BY <3>1, <3>4
    <3> QED
      BY <3>5, <3>6, <3>7, <3>8, <3>9, <3>10 DEF HeldOnce
  <2>6. ServedOnce'
    BY <1>1 DEF ListenInv, ServedOnce, Waits
  <2>7. OneFile'
    <3>1. /\ lis'[l].addr = a /\ \A k \in Listeners : k # l => lis'[k].addr = lis[k].addr
          /\ \A k \in Listeners : k # l => (L!Listens(k)' <=> L!Listens(k))
      BY <2>3 DEF L!Listens
    <3> QED
      BY <1>1, <3>1 DEF ListenInv, OneFile
  <2> QED
    BY <2>4, <2>5, <2>6, <2>7 DEF ListenInv
<1> QED
  BY <1>5, <1>6, <1>7

\* The commands of the I/O thread and of zmq_unbind.
LEMMA ListenState ==
  ASSUME ListenInv, NEW l \in Listeners, L!process_plug(l) \/ L!unbind(l)
  PROVE  ListenInv'
<1>1. lis \in [Listeners -> [state : {"new", "failed", "bound", "plugged", "terminating", "gone"},
                             addr : Places, s : L!Fds \cup {L!retired_fd}, has_file : BOOLEAN]]
  BY DEF ListenInv, ListenTypeOK
<1>2. /\ lis[l].state \in {"bound", "plugged"} /\ UNCHANGED <<name, backlog, con, engine, fds, failed>>
      /\ \E st \in {"plugged", "terminating"} : lis' = [lis EXCEPT ![l].state = st]
  BY DEF L!process_plug, L!unbind
<1>3. PICK st \in {"plugged", "terminating"} : lis' = [lis EXCEPT ![l].state = st]
  BY <1>2
<1> DEFINE rec == [lis[l] EXCEPT !.state = st]
<1>4. /\ rec \in [state : {"new", "failed", "bound", "plugged", "terminating", "gone"},
                  addr : Places, s : L!Fds \cup {L!retired_fd}, has_file : BOOLEAN]
      /\ rec.s = lis[l].s /\ rec.state = st /\ rec.addr = lis[l].addr
  BY <1>1
<1>5. lis' = [lis EXCEPT ![l] = rec]
  BY <1>3
<1>6. L!Listens(l)
  BY <1>2 DEF L!Listens
<1>7. name' \in [Addresses -> Listeners \cup {"nobody", "stale"}]
  BY <1>2 DEF ListenInv, ListenTypeOK
<1> HIDE DEF rec
<1>8. /\ L!Listens(l) /\ rec.addr = lis[l].addr /\ rec.s = lis[l].s
      /\ rec.state \in {"bound", "plugged", "terminating"}
  BY <1>3, <1>4, <1>6
<1>9. UNCHANGED <<backlog, con, engine, fds, failed>>
  BY <1>2
<1>10. rec \in [state : {"new", "failed", "bound", "plugged", "terminating", "gone"},
                addr : Places, s : L!Fds \cup {L!retired_fd}, has_file : BOOLEAN]
  BY <1>4
<1> QED
  BY <1>5, <1>7, <1>8, <1>9, <1>10, ListenerMoves

\* The listener is closed, with the connections that wait in its backlog.
LEMMA ListenTerm ==
  ASSUME ListenInv, NEW l \in Listeners, L!process_term(l)
  PROVE  ListenInv'
<1>1. /\ lis[l].state = "terminating"
      /\ lis' = [lis EXCEPT ![l].state = "gone", ![l].s = L!retired_fd]
      /\ fds' = fds \ {lis[l].s}
      /\ name' \in {L!close_tcp(l), L!close_ipc(l)}
      /\ con' = [c \in Clients |-> IF L!Contains(backlog[l], c) THEN L!Lost(con[c]) ELSE con[c]]
      /\ backlog' = [backlog EXCEPT ![l] = <<>>] /\ UNCHANGED <<engine, failed>>
  BY DEF L!process_term
<1>2. /\ lis \in [Listeners -> [state : {"new", "failed", "bound", "plugged", "terminating", "gone"},
                                addr : Places, s : L!Fds \cup {L!retired_fd}, has_file : BOOLEAN]]
      /\ name \in [Addresses -> Listeners \cup {"nobody", "stale"}]
      /\ backlog \in [Listeners -> Seq(Clients)]
      /\ con \in [Clients -> [state : ConStates, addr : Addresses]]
      /\ fds \in SUBSET L!Fds
  BY DEF ListenInv, ListenTypeOK
<1>3. /\ lis'[l].state = "gone" /\ lis'[l].s = L!retired_fd
      /\ \A k \in Listeners : k # l => lis'[k] = lis[k]
  BY <1>1, <1>2
<1>4. /\ \A c \in Clients : con'[c] = IF Waits(l, c) THEN L!Lost(con[c]) ELSE con[c]
      /\ \A c \in Clients : L!Lost(con[c]) \in [state : ConStates, addr : Addresses]
  BY <1>1, <1>2 DEF L!Contains, Waits, L!Lost, ConStates
<1>5. ListenTypeOK'
  <2>1. lis' \in [Listeners -> [state : {"new", "failed", "bound", "plugged", "terminating", "gone"},
                                addr : Places, s : L!Fds \cup {L!retired_fd}, has_file : BOOLEAN]]
    <3> DEFINE rec == [lis[l] EXCEPT !.state = "gone", !.s = L!retired_fd]
    <3>0. lis[l] \in [state : {"new", "failed", "bound", "plugged", "terminating", "gone"},
                      addr : Places, s : L!Fds \cup {L!retired_fd}, has_file : BOOLEAN]
      BY <1>2
    <3>1. rec \in [state : {"new", "failed", "bound", "plugged", "terminating", "gone"},
                   addr : Places, s : L!Fds \cup {L!retired_fd}, has_file : BOOLEAN]
      BY <3>0
    <3>2. lis' = [lis EXCEPT ![l] = rec]
      BY <1>1, <1>2
    <3> HIDE DEF rec
    <3> QED
      BY <1>2, <3>1, <3>2
  <2>2. con' \in [Clients -> [state : ConStates, addr : Addresses]]
    BY <1>1, <1>2, <1>4
  <2>3. backlog' \in [Listeners -> Seq(Clients)]
    BY <1>1, <1>2
  <2>4. name' \in [Addresses -> Listeners \cup {"nobody", "stale"}]
    BY <1>1, <1>2 DEF L!close_tcp, L!close_ipc
  <2>5. fds' \in SUBSET L!Fds
    BY <1>1, <1>2
  <2> QED
    BY <1>1, <2>1, <2>2, <2>3, <2>4, <2>5 DEF ListenInv, ListenTypeOK
<1>6. ~ L!Listens(l)' /\ \A k \in Listeners : k # l => (L!Listens(k)' <=> L!Listens(k))
  BY <1>3 DEF L!Listens
<1>7. HeldOnce'
  <2>1. /\ \A k \in Listeners : lis[k].s # L!retired_fd => L!Listens(k) /\ lis[k].s \in fds
        /\ \A k \in Listeners : L!Listens(k) => lis[k].addr \in Addresses
        /\ \A c \in Clients : engine[c] # L!retired_fd => engine[c] \in fds
        /\ \A g \in fds : (\E k \in Listeners : lis[k].s = g) \/ (\E c \in Clients : engine[c] = g)
        /\ \A j, k \in Listeners : lis[j].s = lis[k].s /\ lis[j].s # L!retired_fd => j = k
        /\ \A c, d \in Clients : engine[c] = engine[d] /\ engine[c] # L!retired_fd => c = d
        /\ \A k \in Listeners, c \in Clients : lis[k].s = engine[c] => engine[c] = L!retired_fd
    BY DEF ListenInv, HeldOnce
  <2>2. /\ \A k \in Listeners : k # l => lis'[k].s = lis[k].s /\ lis'[k].addr = lis[k].addr
        /\ engine' = engine
    BY <1>1, <1>3
  <2>3. \A k \in Listeners : /\ lis'[k].s # L!retired_fd => L!Listens(k)' /\ lis'[k].s \in fds'
                             /\ L!Listens(k)' => lis'[k].addr \in Addresses
    <3>1. \A k \in Listeners : k # l /\ lis[k].s # L!retired_fd => lis[k].s # lis[l].s
      BY <2>1
    <3>2. \A k \in Listeners : lis'[k].s # L!retired_fd => k # l
      BY <1>3
    <3>3. \A k \in Listeners : L!Listens(k)' => k # l
      BY <1>6
    <3>4. ASSUME NEW k \in Listeners, lis'[k].s # L!retired_fd
          PROVE  L!Listens(k)' /\ lis'[k].s \in fds'
      <4>1. k # l /\ lis'[k].s = lis[k].s
        BY <2>2, <3>2, <3>4
      <4>2. L!Listens(k) /\ lis[k].s \in fds /\ lis[k].s # lis[l].s
        BY <2>1, <3>1, <3>4, <4>1
      <4> QED
        BY <1>1, <1>6, <4>1, <4>2
    <3>5. ASSUME NEW k \in Listeners, L!Listens(k)'
          PROVE  lis'[k].addr \in Addresses
      <4>1. k # l
        BY <3>3, <3>5
      <4>2. L!Listens(k) /\ lis'[k].addr = lis[k].addr
        BY <1>6, <2>2, <3>5, <4>1
      <4> QED
        BY <2>1, <4>2
    <3> QED
      BY <3>4, <3>5
  <2>4. \A g \in fds' : (\E k \in Listeners : lis'[k].s = g) \/ (\E c \in Clients : engine'[c] = g)
    <3> SUFFICES ASSUME NEW g \in fds'
                 PROVE  (\E k \in Listeners : lis'[k].s = g) \/ (\E c \in Clients : engine'[c] = g)
      OBVIOUS
    <3>1. g \in fds /\ g # lis[l].s
      BY <1>1
    <3>2. CASE \E k \in Listeners : lis[k].s = g
      BY <2>2, <3>1, <3>2
    <3>3. CASE \E c \in Clients : engine[c] = g
      BY <2>2, <3>3
    <3> QED
      BY <2>1, <3>1, <3>2, <3>3
  <2>5. \A j, k \in Listeners : lis'[j].s = lis'[k].s /\ lis'[j].s # L!retired_fd => j = k
    BY <1>3, <2>1, <2>2
  <2>6. \A k \in Listeners, c \in Clients : lis'[k].s = engine'[c] => engine'[c] = L!retired_fd
    BY <1>3, <2>1, <2>2
  <2>7. \A c \in Clients : engine'[c] # L!retired_fd => engine'[c] \in fds'
    BY <1>1, <2>1, <2>2
  <2>8. \A c, d \in Clients : engine'[c] = engine'[d] /\ engine'[c] # L!retired_fd => c = d
    BY <2>1, <2>2
  <2> QED
    BY <2>3, <2>4, <2>5, <2>6, <2>7, <2>8 DEF HeldOnce
<1>8. ServedOnce'
  <2>1. /\ backlog'[l] = <<>> /\ \A k \in Listeners : k # l => backlog'[k] = backlog[k]
    BY <1>1, <1>2
  <2>2. \A k \in Listeners, c \in Clients : Waits(k, c)' => k # l /\ Waits(k, c)
    BY <2>1 DEF Waits
  <2>3. \A k \in Listeners, c \in Clients : Waits(k, c)' => con'[c] = con[c]
    BY <1>4, <2>2 DEF ListenInv, ServedOnce
  <2>4. \A c \in Clients : engine[c] # L!retired_fd => con'[c] = con[c]
    BY <1>4 DEF ListenInv, ServedOnce
  <2>5. \A k \in Listeners : NoRepeat(backlog'[k])
    <3>1. NoRepeat(<<>>)
      BY DEF NoRepeat
    <3>2. \A k \in Listeners : NoRepeat(backlog[k])
      BY DEF ListenInv, ServedOnce
    <3> QED
      BY <2>1, <3>1, <3>2
  <2>6. \A c \in Clients : engine'[c] # L!retired_fd => con'[c].state = "attached"
    BY <1>1, <2>4 DEF ListenInv, ServedOnce
  <2>7. \A k \in Listeners, c \in Clients :
          Waits(k, c)' => con'[c].state = "attached" /\ engine'[c] = L!retired_fd
    BY <1>1, <2>2, <2>3 DEF ListenInv, ServedOnce
  <2>8. \A j, k \in Listeners, c \in Clients : Waits(j, c)' /\ Waits(k, c)' => j = k
    BY <2>2 DEF ListenInv, ServedOnce
  <2> QED
    BY <2>5, <2>6, <2>7, <2>8 DEF ServedOnce
<1>9. OneFile'
  BY <1>3, <1>6 DEF ListenInv, OneFile
<1> QED
  BY <1>5, <1>7, <1>8, <1>9 DEF ListenInv

\* The first of a backlog is taken out: it waits nowhere any more.
LEMMA Dequeued ==
  ASSUME ListenInv, NEW l \in Listeners, backlog[l] # <<>>,
         backlog' = [backlog EXCEPT ![l] = Tail(@)]
  PROVE  /\ backlog' \in [Listeners -> Seq(Clients)]
         /\ Head(backlog[l]) \in Clients
         /\ con[Head(backlog[l])].state = "attached" /\ engine[Head(backlog[l])] = L!retired_fd
         /\ \A k \in Listeners, c \in Clients : Waits(k, c)' => Waits(k, c) /\ c # Head(backlog[l])
         /\ \A k \in Listeners : NoRepeat(backlog'[k])
<1>1. backlog \in [Listeners -> Seq(Clients)] /\ backlog[l] \in Seq(Clients)
  BY DEF ListenInv, ListenTypeOK
<1> DEFINE b == backlog[l]
<1>2. /\ Tail(b) \in Seq(Clients) /\ Len(Tail(b)) = Len(b) - 1 /\ Len(b) \in Nat \ {0}
      /\ Head(b) = b[1] /\ b[1] \in Clients
      /\ \A i \in 1 .. Len(b) - 1 : Tail(b)[i] = b[i + 1]
  BY <1>1, OneLess
<1>3. backlog'[l] = Tail(b) /\ \A k \in Listeners : k # l => backlog'[k] = backlog[k]
  BY <1>1
<1>4. backlog' \in [Listeners -> Seq(Clients)]
  BY <1>1, <1>2
<1> HIDE DEF b
<1>5. Waits(l, b[1])
  <2>1. 1 \in 1 .. Len(b)
    BY <1>2
  <2> QED
    BY <2>1 DEF Waits, b
<1>6. \A i, j \in 1 .. Len(b) : b[i] = b[j] => i = j
  BY DEF ListenInv, ServedOnce, NoRepeat, b
<1>7. \A i \in 1 .. Len(b) - 1 : i + 1 \in 1 .. Len(b) /\ i + 1 # 1
  BY <1>2
<1>8. ASSUME NEW k \in Listeners, NEW c \in Clients, Waits(k, c)'
      PROVE  Waits(k, c) /\ c # b[1]
  <2>1. CASE k = l
    <3>1. PICK i \in 1 .. Len(b) - 1 : Tail(b)[i] = c
      BY <1>2, <1>3, <1>8, <2>1 DEF Waits
    <3>2. b[i + 1] = c /\ i + 1 \in 1 .. Len(b) /\ i + 1 # 1 /\ 1 \in 1 .. Len(b)
      BY <1>2, <1>7, <3>1
    <3> QED
      BY <1>6, <2>1, <3>2 DEF Waits, b
  <2>2. CASE k # l
    <3>1. Waits(k, c)
      BY <1>3, <1>8, <2>2 DEF Waits
    <3> QED
      BY <1>2, <1>5, <2>2, <3>1 DEF ListenInv, ServedOnce
  <2> QED
    BY <2>1, <2>2
<1>9. ASSUME NEW k \in Listeners
      PROVE  NoRepeat(backlog'[k])
  <2>1. CASE k = l
    <3>1. NoRepeat(Tail(b))
      <4> SUFFICES ASSUME NEW i \in 1 .. Len(b) - 1, NEW j \in 1 .. Len(b) - 1,
                          Tail(b)[i] = Tail(b)[j]
                   PROVE  i = j
        BY <1>2 DEF NoRepeat
      <4>1. b[i + 1] = b[j + 1]
        BY <1>2
      <4>2. i + 1 = j + 1
        BY <1>6, <1>7, <4>1
      <4> QED
        BY <4>2
    <3>2. backlog'[k] = Tail(b)
      BY <1>3, <2>1
    <3> QED
      BY <3>1, <3>2
  <2>2. CASE k # l
    BY <1>3, <2>2 DEF ListenInv, ServedOnce
  <2> QED
    BY <2>1, <2>2
<1>10. /\ Head(backlog[l]) = b[1] /\ b[1] \in Clients
       /\ con[b[1]].state = "attached" /\ engine[b[1]] = L!retired_fd
  BY <1>2, <1>5 DEF ListenInv, ServedOnce, b
<1> QED
  BY <1>4, <1>8, <1>9, <1>10

\* An engine is given a descriptor that was free.
LEMMA EngineTakes ==
  ASSUME ListenTypeOK, HeldOnce, NEW c \in Clients, NEW f, f \notin fds, f # L!retired_fd,
         engine[c] = L!retired_fd, engine' = [engine EXCEPT ![c] = f], fds' = fds \cup {f},
         lis' = lis
  PROVE  HeldOnce'
<1>1. /\ \A k \in Listeners : lis[k].s # L!retired_fd => L!Listens(k) /\ lis[k].s \in fds
      /\ \A k \in Listeners : L!Listens(k) => lis[k].addr \in Addresses
      /\ \A d \in Clients : engine[d] # L!retired_fd => engine[d] \in fds
      /\ \A g \in fds : (\E k \in Listeners : lis[k].s = g) \/ (\E d \in Clients : engine[d] = g)
      /\ \A j, k \in Listeners : lis[j].s = lis[k].s /\ lis[j].s # L!retired_fd => j = k
      /\ \A d, e \in Clients : engine[d] = engine[e] /\ engine[d] # L!retired_fd => d = e
      /\ \A k \in Listeners, d \in Clients : lis[k].s = engine[d] => engine[d] = L!retired_fd
  BY DEF HeldOnce
<1>2. /\ \A k \in Listeners : L!Listens(k)' = L!Listens(k)
      /\ engine \in [Clients -> L!Fds \cup {L!retired_fd}]
      /\ \A g \in fds : g # L!retired_fd
  BY NotRetired DEF L!Listens, ListenTypeOK
<1>3. engine'[c] = f /\ \A d \in Clients : d # c => engine'[d] = engine[d]
  BY <1>2
<1>4. \A k \in Listeners : /\ lis'[k].s # L!retired_fd => L!Listens(k)' /\ lis'[k].s \in fds'
                           /\ L!Listens(k)' => lis'[k].addr \in Addresses
  BY <1>1, <1>2
<1>5. \A d \in Clients : engine'[d] # L!retired_fd => engine'[d] \in fds'
  <2>1. \A d \in Clients : d # c => (engine'[d] # L!retired_fd => engine'[d] \in fds')
    BY <1>1, <1>3
  <2> QED
    BY <1>3, <2>1
<1>6. \A g \in fds' : (\E k \in Listeners : lis'[k].s = g) \/ (\E d \in Clients : engine'[d] = g)
  <2> SUFFICES ASSUME NEW g \in fds'
               PROVE  (\E k \in Listeners : lis'[k].s = g) \/ (\E d \in Clients : engine'[d] = g)
    OBVIOUS
  <2>1. CASE g = f
    BY <1>3, <2>1
  <2>2. CASE g # f /\ \E k \in Listeners : lis[k].s = g
    BY <2>2
  <2>3. CASE g # f /\ \E d \in Clients : engine[d] = g
    <3>1. PICK d \in Clients : engine[d] = g
      BY <2>3
    <3>2. g # L!retired_fd
      BY <1>2, <2>3
    <3> QED
      BY <1>3, <3>1, <3>2
  <2> QED
    BY <1>1, <2>1, <2>2, <2>3
<1>7. \A j, k \in Listeners : lis'[j].s = lis'[k].s /\ lis'[j].s # L!retired_fd => j = k
  BY <1>1
<1>8. \A d, e \in Clients : engine'[d] = engine'[e] /\ engine'[d] # L!retired_fd => d = e
  <2>1. \A d \in Clients : d # c => engine'[d] # f
    BY <1>1, <1>3
  <2> QED
    BY <1>1, <1>3, <2>1
<1>9. \A k \in Listeners, d \in Clients : lis'[k].s = engine'[d] => engine'[d] = L!retired_fd
  <2>1. \A k \in Listeners : lis'[k].s # engine'[c]
    BY <1>1, <1>3
  <2> QED
    BY <1>1, <1>3, <2>1
<1> QED
  BY <1>4, <1>5, <1>6, <1>7, <1>8, <1>9 DEF HeldOnce

\* A connection is accepted, refused or left to wait.
LEMMA ListenAccept ==
  ASSUME ListenInv, NEW l \in Listeners, L!in_event(l), "no descriptors" \notin ListenRaces
  PROVE  ListenInv'
<1> DEFINE c == Head(backlog[l])
<1>1. /\ backlog[l] # <<>> /\ UNCHANGED <<lis, name>>
      /\ \/ L!no_descriptor(l)
         \/ L!refuse(l, c)
         \/ L!Free # {} /\ L!launch(l, c)
  BY DEF L!in_event
<1>2. /\ con \in [Clients -> [state : ConStates, addr : Addresses]]
      /\ engine \in [Clients -> L!Fds \cup {L!retired_fd}] /\ fds \in SUBSET L!Fds
  BY DEF ListenInv, ListenTypeOK
<1>3. OneFile'
  BY <1>1 DEF ListenInv, OneFile, L!Listens
<1>4. CASE L!no_descriptor(l)
  <2>1. UNCHANGED <<backlog, con, engine, fds, failed>>
    <3>1. UNCHANGED failed
      BY <1>4 DEF L!no_descriptor, L!accept_ipc_fails, L!accept_tcp_fails
    <3>2. UNCHANGED <<backlog, con, engine, fds>>
      BY <1>4 DEF L!no_descriptor
    <3> QED
      BY <3>1, <3>2
  <2>2. ListenTypeOK'
    BY <1>1, <2>1 DEF ListenInv, ListenTypeOK
  <2>3. HeldOnce'
    BY <1>1, <2>1 DEF ListenInv, HeldOnce, L!Listens
  <2>4. ServedOnce'
    <3>1. backlog' = backlog /\ con' = con /\ engine' = engine
      BY <2>1
    <3>2. ServedOnce
      BY DEF ListenInv
    <3> HIDE DEF c
    <3>3. \A k \in Listeners : /\ NoRepeat(backlog'[k]) = NoRepeat(backlog[k])
                              /\ \A d \in Clients : Waits(k, d)' = Waits(k, d)
      BY <3>1 DEF Waits
    <3> QED
      BY <3>1, <3>2, <3>3 DEF ServedOnce
  <2> QED
    BY <1>3, <2>2, <2>3, <2>4 DEF ListenInv
<1>5. CASE L!refuse(l, c)
  <2>1. /\ con' = [con EXCEPT ![c] = L!Lost(@)] /\ backlog' = [backlog EXCEPT ![l] = Tail(@)]
        /\ UNCHANGED <<engine, fds, failed>>
    BY <1>5 DEF L!refuse
  <2>2. /\ backlog' \in [Listeners -> Seq(Clients)]
        /\ c \in Clients /\ con[c].state = "attached" /\ engine[c] = L!retired_fd
        /\ \A k \in Listeners, d \in Clients : Waits(k, d)' => Waits(k, d) /\ d # c
        /\ \A k \in Listeners : NoRepeat(backlog'[k])
    BY <1>1, <2>1, Dequeued
  <2> HIDE DEF c
  <2>3. L!Lost(con[c]) \in [state : ConStates, addr : Addresses]
    BY <1>2, <2>2 DEF L!Lost, ConStates
  <2>4. con' \in [Clients -> [state : ConStates, addr : Addresses]]
    BY <1>2, <2>1, <2>3
  <2>5. \A d \in Clients : d # c => con'[d] = con[d]
    BY <1>2, <2>1
  <2>6. ListenTypeOK'
    BY <1>1, <2>1, <2>2, <2>4 DEF ListenInv, ListenTypeOK
  <2>7. HeldOnce'
    BY <1>1, <2>1 DEF ListenInv, HeldOnce, L!Listens
  <2>8. ServedOnce'
    <3>1. \A d \in Clients : engine'[d] # L!retired_fd => con'[d].state = "attached"
      BY <2>1, <2>2, <2>5 DEF ListenInv, ServedOnce
    <3>2. \A k \in Listeners, d \in Clients :
            Waits(k, d)' => con'[d].state = "attached" /\ engine'[d] = L!retired_fd
      <4>1. \A k \in Listeners, d \in Clients :
              Waits(k, d) => con[d].state = "attached" /\ engine[d] = L!retired_fd
        BY DEF ListenInv, ServedOnce
      <4> QED
        BY <2>1, <2>2, <2>5, <4>1
    <3>3. \A j, k \in Listeners, d \in Clients : Waits(j, d)' /\ Waits(k, d)' => j = k
      BY <2>2 DEF ListenInv, ServedOnce
    <3> QED
      BY <2>2, <3>1, <3>2, <3>3 DEF ServedOnce
  <2> QED
    BY <1>3, <2>6, <2>7, <2>8 DEF ListenInv
<1>6. CASE L!Free # {} /\ L!launch(l, c)
  <2> DEFINE f == L!Smallest(L!Free)
  <2>1. /\ backlog' = [backlog EXCEPT ![l] = Tail(@)] /\ engine' = [engine EXCEPT ![c] = f]
        /\ fds' = fds \cup {f} /\ UNCHANGED <<con, failed>>
    BY <1>6 DEF L!launch
  <2>2. f \in L!Fds /\ f \notin fds /\ f # L!retired_fd
    BY <1>6, SmallestFree
  <2>3. /\ backlog' \in [Listeners -> Seq(Clients)]
        /\ c \in Clients /\ con[c].state = "attached" /\ engine[c] = L!retired_fd
        /\ \A k \in Listeners, d \in Clients : Waits(k, d)' => Waits(k, d) /\ d # c
        /\ \A k \in Listeners : NoRepeat(backlog'[k])
    BY <1>1, <2>1, Dequeued
  <2> HIDE DEF c, f
  <2>4. engine'[c] = f /\ \A d \in Clients : d # c => engine'[d] = engine[d]
    BY <1>2, <2>1, <2>3
  <2>5. engine' \in [Clients -> L!Fds \cup {L!retired_fd}] /\ fds' \in SUBSET L!Fds
    BY <1>2, <2>1, <2>2
  <2>6. ListenTypeOK'
    BY <1>1, <2>1, <2>3, <2>5 DEF ListenInv, ListenTypeOK
  <2>7. HeldOnce'
    BY <1>1, <1>2, <2>1, <2>2, <2>3, EngineTakes DEF ListenInv
  <2>8. ServedOnce'
    <3>1. \A d \in Clients : engine'[d] # L!retired_fd => con'[d].state = "attached"
      BY <2>1, <2>3, <2>4 DEF ListenInv, ServedOnce
    <3>2. \A k \in Listeners, d \in Clients :
            Waits(k, d)' => con'[d].state = "attached" /\ engine'[d] = L!retired_fd
      <4>1. \A k \in Listeners, d \in Clients :
              Waits(k, d) => con[d].state = "attached" /\ engine[d] = L!retired_fd
        BY DEF ListenInv, ServedOnce
      <4> QED
        BY <2>1, <2>3, <2>4, <4>1
    <3>3. \A j, k \in Listeners, d \in Clients : Waits(j, d)' /\ Waits(k, d)' => j = k
      BY <2>3 DEF ListenInv, ServedOnce
    <3> QED
      BY <2>3, <3>1, <3>2, <3>3 DEF ServedOnce
  <2> QED
    BY <1>3, <2>6, <2>7, <2>8 DEF ListenInv
<1> QED
  BY <1>1, <1>4, <1>5, <1>6

\* A connection ends, and with it its engine.
LEMMA ListenEnds ==
  ASSUME ListenInv, NEW c \in Clients, L!engine_ends(c)
  PROVE  ListenInv'
<1>1. /\ engine[c] # L!retired_fd /\ engine' = [engine EXCEPT ![c] = L!retired_fd]
      /\ fds' = fds \ {engine[c]} /\ con' = [con EXCEPT ![c] = L!Lost(@)]
      /\ UNCHANGED <<lis, name, backlog, failed>>
  BY DEF L!engine_ends
<1>2. /\ con \in [Clients -> [state : ConStates, addr : Addresses]]
      /\ engine \in [Clients -> L!Fds \cup {L!retired_fd}] /\ fds \in SUBSET L!Fds
  BY DEF ListenInv, ListenTypeOK
<1>3. L!Lost(con[c]) \in [state : ConStates, addr : Addresses]
  BY <1>2 DEF L!Lost, ConStates
<1>4. /\ engine'[c] = L!retired_fd
      /\ \A d \in Clients : d # c => engine'[d] = engine[d] /\ con'[d] = con[d]
  BY <1>1, <1>2
<1>5. ListenTypeOK'
  <2>1. /\ engine' \in [Clients -> L!Fds \cup {L!retired_fd}] /\ fds' \in SUBSET L!Fds
        /\ con' \in [Clients -> [state : ConStates, addr : Addresses]]
    BY <1>1, <1>2, <1>3
  <2> QED
    BY <1>1, <2>1 DEF ListenInv, ListenTypeOK
<1>6. HeldOnce'
  <2>1. /\ \A k \in Listeners : lis[k].s # L!retired_fd => L!Listens(k) /\ lis[k].s \in fds
        /\ \A k \in Listeners : L!Listens(k) => lis[k].addr \in Addresses
        /\ \A d \in Clients : engine[d] # L!retired_fd => engine[d] \in fds
        /\ \A g \in fds : (\E k \in Listeners : lis[k].s = g) \/ (\E d \in Clients : engine[d] = g)
        /\ \A j, k \in Listeners : lis[j].s = lis[k].s /\ lis[j].s # L!retired_fd => j = k
        /\ \A d, e \in Clients : engine[d] = engine[e] /\ engine[d] # L!retired_fd => d = e
        /\ \A k \in Listeners, d \in Clients : lis[k].s = engine[d] => engine[d] = L!retired_fd
    BY DEF ListenInv, HeldOnce
  <2>2. lis' = lis /\ \A k \in Listeners : L!Listens(k)' = L!Listens(k)
    BY <1>1 DEF L!Listens
  <2>3. \A k \in Listeners : /\ lis'[k].s # L!retired_fd => L!Listens(k)' /\ lis'[k].s \in fds'
                             /\ L!Listens(k)' => lis'[k].addr \in Addresses
    <3>1. \A k \in Listeners : lis[k].s # engine[c]
      BY <1>1, <2>1
    <3> QED
      BY <1>1, <2>1, <2>2, <3>1
  <2>4. \A d \in Clients : engine'[d] # L!retired_fd => engine'[d] \in fds'
    <3> SUFFICES ASSUME NEW d \in Clients, engine'[d] # L!retired_fd
                 PROVE  engine'[d] \in fds'
      OBVIOUS
    <3>1. d # c /\ engine'[d] = engine[d]
      BY <1>4
    <3>2. engine[d] \in fds /\ engine[d] # engine[c]
      BY <2>1, <3>1
    <3> QED
      BY <1>1, <3>1, <3>2
  <2>5. \A g \in fds' : (\E k \in Listeners : lis'[k].s = g) \/ (\E d \in Clients : engine'[d] = g)
    <3> SUFFICES ASSUME NEW g \in fds'
                 PROVE  (\E k \in Listeners : lis'[k].s = g) \/ (\E d \in Clients : engine'[d] = g)
      OBVIOUS
    <3>1. g \in fds /\ g # engine[c]
      BY <1>1
    <3>2. CASE \E k \in Listeners : lis[k].s = g
      BY <2>2, <3>2
    <3>3. CASE \E d \in Clients : engine[d] = g
      BY <1>4, <3>1, <3>3
    <3> QED
      BY <2>1, <3>1, <3>2, <3>3
  <2>6. \A j, k \in Listeners : lis'[j].s = lis'[k].s /\ lis'[j].s # L!retired_fd => j = k
    BY <2>1, <2>2
  <2>7. \A d, e \in Clients : engine'[d] = engine'[e] /\ engine'[d] # L!retired_fd => d = e
    BY <1>4, <2>1
  <2>8. \A k \in Listeners, d \in Clients : lis'[k].s = engine'[d] => engine'[d] = L!retired_fd
    BY <1>4, <2>1, <2>2
  <2> QED
    BY <2>3, <2>4, <2>5, <2>6, <2>7, <2>8 DEF HeldOnce
<1>7. ServedOnce'
  <2>1. \A k \in Listeners, d \in Clients : Waits(k, d)' => Waits(k, d) /\ d # c
    BY <1>1 DEF ListenInv, ServedOnce, Waits
  <2>2. \A k \in Listeners : NoRepeat(backlog'[k])
    BY <1>1 DEF ListenInv, ServedOnce
  <2>3. \A d \in Clients : engine'[d] # L!retired_fd => con'[d].state = "attached"
    BY <1>4 DEF ListenInv, ServedOnce
  <2>4. \A k \in Listeners, d \in Clients :
          Waits(k, d)' => con'[d].state = "attached" /\ engine'[d] = L!retired_fd
    BY <1>4, <2>1 DEF ListenInv, ServedOnce
  <2>5. \A j, k \in Listeners, d \in Clients : Waits(j, d)' /\ Waits(k, d)' => j = k
    BY <2>1 DEF ListenInv, ServedOnce
  <2> QED
    BY <2>2, <2>3, <2>4, <2>5 DEF ServedOnce
<1>8. OneFile'
  BY <1>1 DEF ListenInv, OneFile, L!Listens
<1> QED
  BY <1>5, <1>6, <1>7, <1>8 DEF ListenInv

\* A connecter tries, gives up for a while, or gets into a backlog.
LEMMA ListenConnects ==
  ASSUME ListenInv, NEW c \in Clients, L!ConnecterStep(c)
  PROVE  ListenInv'
<1>1. /\ UNCHANGED <<lis, name, engine, fds, failed>> /\ con[c].state # "attached"
      /\ \E st \in ConStates :
           /\ con' = [con EXCEPT ![c].state = st]
           /\ \/ UNCHANGED backlog
              \/ /\ L!Target(c) \in Listeners /\ st = "attached"
                 /\ backlog' = [backlog EXCEPT ![L!Target(c)] = Append(@, c)]
  <2>1. L!start_connecting(c) => \E st \in ConStates :
           /\ con' = [con EXCEPT ![c].state = st]
           /\ \/ UNCHANGED backlog
              \/ /\ L!Target(c) \in Listeners /\ st = "attached"
                 /\ backlog' = [backlog EXCEPT ![L!Target(c)] = Append(@, c)]
    BY DEF L!start_connecting, L!Connects, L!out_event, L!Goes, ConStates
  <2>2. CASE L!connecter_plug(c)
    <3>1. L!Goes(c, "timer") /\ UNCHANGED backlog => \E st \in ConStates :
            con' = [con EXCEPT ![c].state = st] /\ UNCHANGED backlog
      BY DEF L!Goes, ConStates
    <3> QED
      BY <2>1, <2>2, <3>1 DEF L!connecter_plug
  <2>3. CASE L!connecter_timer_event(c)
    BY <2>1, <2>3 DEF L!connecter_timer_event
  <2>4. CASE L!connecter_out_event(c)
    BY <2>4 DEF L!connecter_out_event, L!Connects, L!out_event, L!Goes, ConStates
  <2> QED
    BY <2>2, <2>3, <2>4 DEF L!ConnecterStep
<1>2. /\ con \in [Clients -> [state : ConStates, addr : Addresses]]
      /\ backlog \in [Listeners -> Seq(Clients)]
  BY DEF ListenInv, ListenTypeOK
<1>3. PICK st \in ConStates :
           /\ con' = [con EXCEPT ![c].state = st]
           /\ \/ UNCHANGED backlog
              \/ /\ L!Target(c) \in Listeners /\ st = "attached"
                 /\ backlog' = [backlog EXCEPT ![L!Target(c)] = Append(@, c)]
  BY <1>1
<1>4. /\ con' \in [Clients -> [state : ConStates, addr : Addresses]]
      /\ con'[c].state = st /\ \A d \in Clients : d # c => con'[d] = con[d]
  BY <1>2, <1>3
<1>5. engine[c] = L!retired_fd /\ \A k \in Listeners : ~ Waits(k, c)
  BY <1>1 DEF ListenInv, ServedOnce
<1>6. HeldOnce' /\ OneFile'
  BY <1>1 DEF ListenInv, HeldOnce, OneFile, L!Listens
<1>7. \A d \in Clients : engine'[d] # L!retired_fd => con'[d].state = "attached"
  BY <1>1, <1>4, <1>5 DEF ListenInv, ServedOnce
<1>8. /\ \A k \in Listeners, d \in Clients :
           Waits(k, d) => con[d].state = "attached" /\ engine[d] = L!retired_fd
      /\ \A k \in Listeners : NoRepeat(backlog[k])
      /\ \A j, k \in Listeners, d \in Clients : Waits(j, d) /\ Waits(k, d) => j = k
  BY DEF ListenInv, ServedOnce
<1>9. CASE UNCHANGED backlog
  <2>1. ListenTypeOK'
    BY <1>1, <1>4, <1>9 DEF ListenInv, ListenTypeOK
  <2>2. \A k \in Listeners : /\ NoRepeat(backlog'[k]) = NoRepeat(backlog[k])
                             /\ \A d \in Clients : Waits(k, d)' = Waits(k, d)
    BY <1>9 DEF Waits
  <2>3. \A k \in Listeners, d \in Clients :
          Waits(k, d)' => con'[d].state = "attached" /\ engine'[d] = L!retired_fd
    <3>1. \A k \in Listeners, d \in Clients : Waits(k, d)' => Waits(k, d) /\ d # c
      BY <1>5, <2>2
    <3>2. engine' = engine
      BY <1>1
    <3> QED
      BY <1>4, <1>8, <3>1, <3>2
  <2>4. ServedOnce'
    BY <1>7, <1>8, <2>2, <2>3 DEF ServedOnce
  <2> QED
    BY <1>6, <2>1, <2>4 DEF ListenInv
<1>10. ASSUME NEW t \in Listeners, st = "attached", backlog' = [backlog EXCEPT ![t] = Append(@, c)]
       PROVE  ListenInv'
  <2> DEFINE b == backlog[t]
  <2>1. /\ Append(b, c) \in Seq(Clients) /\ Len(Append(b, c)) = Len(b) + 1 /\ Len(b) \in Nat
        /\ \A i \in 1 .. Len(b) : Append(b, c)[i] = b[i]
        /\ Append(b, c)[Len(b) + 1] = c
    BY <1>2, AppendProperties, LenProperties
  <2>2. backlog'[t] = Append(b, c) /\ \A k \in Listeners : k # t => backlog'[k] = backlog[k]
    BY <1>2, <1>10
  <2>3. ListenTypeOK'
    <3>1. backlog' \in [Listeners -> Seq(Clients)]
      BY <1>2, <1>10, <2>1
    <3> QED
      BY <1>1, <1>4, <3>1 DEF ListenInv, ListenTypeOK
  <2> HIDE DEF b
  <2>4. \A i \in 1 .. Len(b) : b[i] # c
    BY <1>5 DEF Waits, b
  <2>5. \A i \in 1 .. Len(b) + 1 : i \in 1 .. Len(b) \/ i = Len(b) + 1
    BY <2>1
  <2>6. ASSUME NEW k \in Listeners
        PROVE  NoRepeat(backlog'[k])
    <3>1. CASE k = t
      <4>1. \A i, j \in 1 .. Len(b) : b[i] = b[j] => i = j
        BY <1>8 DEF NoRepeat, b
      <4>2. NoRepeat(Append(b, c))
        <5> SUFFICES ASSUME NEW i \in 1 .. Len(b) + 1, NEW j \in 1 .. Len(b) + 1,
                            Append(b, c)[i] = Append(b, c)[j]
                     PROVE  i = j
          BY <2>1 DEF NoRepeat
        <5>1. CASE i \in 1 .. Len(b) /\ j \in 1 .. Len(b)
          BY <2>1, <4>1, <5>1
        <5>2. CASE i \in 1 .. Len(b) /\ j = Len(b) + 1
          BY <2>1, <2>4, <5>2
        <5>3. CASE i = Len(b) + 1 /\ j \in 1 .. Len(b)
          BY <2>1, <2>4, <5>3
        <5> QED
          BY <2>5, <5>1, <5>2, <5>3
      <4>3. backlog'[k] = Append(b, c)
        BY <2>2, <3>1
      <4> QED
        BY <4>2, <4>3
    <3>2. CASE k # t
      BY <1>8, <2>2, <3>2
    <3> QED
      BY <3>1, <3>2
  <2>7. ASSUME NEW k \in Listeners, NEW d \in Clients, Waits(k, d)'
        PROVE  (k = t /\ d = c) \/ (Waits(k, d) /\ d # c)
    <3>1. CASE k = t
      <4>1. PICK i \in 1 .. Len(b) + 1 : Append(b, c)[i] = d
        BY <2>1, <2>2, <2>7, <3>1 DEF Waits
      <4>2. CASE i = Len(b) + 1
        BY <2>1, <3>1, <4>1, <4>2
      <4>3. CASE i \in 1 .. Len(b)
        BY <2>1, <2>4, <3>1, <4>1, <4>3 DEF Waits, b
      <4> QED
        BY <2>5, <4>1, <4>2, <4>3
    <3>2. CASE k # t
      <4>1. Waits(k, d)
        BY <2>2, <2>7, <3>2 DEF Waits
      <4> QED
        BY <1>5, <4>1
    <3> QED
      BY <3>1, <3>2
  <2>8. \A k \in Listeners, d \in Clients :
          Waits(k, d)' => con'[d].state = "attached" /\ engine'[d] = L!retired_fd
    <3>1. engine' = engine
      BY <1>1
    <3> QED
      BY <1>4, <1>5, <1>8, <1>10, <2>7, <3>1
  <2>9. \A j, k \in Listeners, d \in Clients : Waits(j, d)' /\ Waits(k, d)' => j = k
    BY <1>8, <2>7
  <2>10. ServedOnce'
    BY <1>7, <2>6, <2>8, <2>9 DEF ServedOnce
  <2> QED
    BY <1>6, <2>3, <2>10 DEF ListenInv
<1> QED
  BY <1>3, <1>9, <1>10

\* Nothing moves.
LEMMA ListenStutters ==
  ASSUME ListenInv, UNCHANGED <<lis, name, backlog, con, engine, fds, failed>>
  PROVE  ListenInv'
<1>1. ListenTypeOK'
  BY DEF ListenInv, ListenTypeOK
<1>2. \A k \in Listeners : L!Listens(k)' = L!Listens(k)
  BY DEF L!Listens
<1>3. HeldOnce' /\ OneFile'
  BY <1>2 DEF ListenInv, HeldOnce, OneFile
<1>4. \A k \in Listeners : /\ NoRepeat(backlog'[k]) = NoRepeat(backlog[k])
                           /\ \A c \in Clients : Waits(k, c)' = Waits(k, c)
  BY DEF Waits
<1>5. ServedOnce'
  BY <1>4 DEF ListenInv, ServedOnce
<1> QED
  BY <1>1, <1>3, <1>5 DEF ListenInv

\* Every step of the application, the listeners and the connecters.
LEMMA NextListen ==
  ASSUME ListenInv, L!ListenNext, ListenRaces \cap {"rebind", "no descriptors"} = {}
  PROVE  ListenInv'
<1>1. "rebind" \notin ListenRaces /\ "no descriptors" \notin ListenRaces
  OBVIOUS
<1>2. ASSUME NEW l \in Listeners, NEW a \in Addresses, NEW ok \in BOOLEAN, L!bind(l, a, ok)
      PROVE  ListenInv'
  BY <1>1, <1>2, ListenBind
<1>3. ASSUME NEW l \in Listeners,
             L!process_plug(l) \/ L!unbind(l) \/ L!process_term(l) \/ L!in_event(l)
      PROVE  ListenInv'
  BY <1>1, <1>3, ListenState, ListenTerm, ListenAccept
<1>4. ASSUME NEW c \in Clients, L!engine_ends(c) \/ L!ConnecterStep(c)
      PROVE  ListenInv'
  BY <1>4, ListenEnds, ListenConnects
<1> QED
  BY <1>2, <1>3, <1>4 DEF L!ListenNext

\* A listener that has its name loses it to a bind only.
LEMMA NameKept ==
  ASSUME ListenInv, L!ListenNext, NEW l \in Listeners
  PROVE  L!KeepsItsName(l)
<1>1. /\ lis \in [Listeners -> [state : {"new", "failed", "bound", "plugged", "terminating", "gone"},
                                addr : Places, s : L!Fds \cup {L!retired_fd}, has_file : BOOLEAN]]
      /\ name \in [Addresses -> Listeners \cup {"nobody", "stale"}]
      /\ \A k \in Listeners : L!Listens(k) => lis[k].addr \in Addresses
  BY DEF ListenInv, ListenTypeOK, HeldOnce
<1>2. SUFFICES /\ lis[l].state = "new" /\ L!Bound(l)' => name'[lis'[l].addr] = l
               /\ L!Bound(l) /\ L!Bound(l)' /\ name[lis'[l].addr] = l =>
                    \/ name'[lis'[l].addr] = l
                    \/ \E k \in Listeners : lis[k].state = "new" /\ lis'[k] # lis[k]
  BY DEF L!KeepsItsName
<1>3. ASSUME NEW k \in Listeners, NEW a \in Addresses, NEW ok \in BOOLEAN, L!bind(k, a, ok)
      PROVE  /\ lis[l].state = "new" /\ L!Bound(l)' => name'[lis'[l].addr] = l
             /\ L!Bound(l) /\ L!Bound(l)' /\ name[lis'[l].addr] = l =>
                  \/ name'[lis'[l].addr] = l
                  \/ \E j \in Listeners : lis[j].state = "new" /\ lis'[j] # lis[j]
  <2>1. lis[k].state = "new"
    BY <1>3 DEF L!bind
  <2>2. \/ \E names : L!Fails(k, a, names)
        \/ \E f : L!Succeeds(k, a, f, [name EXCEPT ![a] = k])
    <3>1. L!set_address_tcp(k, a, ok) \/ L!set_address_ipc(k, a, ok)
      BY <1>3 DEF L!bind
    <3> QED
      BY <3>1 DEF L!set_address_tcp, L!set_address_ipc
  <2>3. /\ lis'[k].state \in {"failed", "bound"} /\ \A j \in Listeners : j # k => lis'[j] = lis[j]
        /\ lis'[k].state = "bound" => lis'[k].addr = a /\ name' = [name EXCEPT ![a] = k]
    <3>1. CASE \E names : L!Fails(k, a, names)
      BY <1>1, <3>1 DEF L!Fails
    <3>2. CASE \E f : L!Succeeds(k, a, f, [name EXCEPT ![a] = k])
      BY <1>1, <3>2 DEF L!Succeeds
    <3> QED
      BY <2>2, <3>1, <3>2
  <2>4. lis'[k] # lis[k]
    BY <2>1, <2>3
  <2>5. lis[l].state = "new" /\ L!Bound(l)' => name'[lis'[l].addr] = l
    <3> SUFFICES ASSUME lis[l].state = "new", L!Bound(l)' PROVE name'[lis'[l].addr] = l
      OBVIOUS
    <3>1. k = l /\ lis'[l].state = "bound"
      BY <2>3 DEF L!Bound
    <3> QED
      BY <1>1, <2>3, <3>1
  <2> QED
    BY <2>1, <2>4, <2>5
<1>4. ASSUME NEW k \in Listeners, L!process_plug(k) \/ L!unbind(k)
      PROVE  name' = name /\ \A j \in Listeners : lis'[j].addr = lis[j].addr
                          /\ (lis[j].state = "new" => lis'[j].state = "new")
  <2>1. \E st \in {"plugged", "terminating"} : lis' = [lis EXCEPT ![k].state = st]
    BY <1>4 DEF L!process_plug, L!unbind
  <2>2. name' = name /\ lis[k].state # "new"
    BY <1>4 DEF L!process_plug, L!unbind
  <2> QED
    BY <1>1, <2>1, <2>2
<1>5. ASSUME NEW k \in Listeners, L!process_term(k)
      PROVE  /\ lis[l].state = "new" /\ L!Bound(l)' => name'[lis'[l].addr] = l
             /\ L!Bound(l) /\ L!Bound(l)' /\ name[lis'[l].addr] = l => name'[lis'[l].addr] = l
  <2>1. /\ lis[k].state = "terminating" /\ lis' = [lis EXCEPT ![k].state = "gone", ![k].s = L!retired_fd]
        /\ name' = IF L!Protocol(lis[k].addr) = "tcp" THEN L!close_tcp(k) ELSE L!close_ipc(k)
    BY <1>5 DEF L!process_term
  <2>2. lis'[k].state = "gone" /\ \A j \in Listeners : j # k => lis'[j] = lis[j]
    BY <1>1, <2>1
  <2>3. lis[l].state = "new" => ~ L!Bound(l)'
    BY <2>1, <2>2 DEF L!Bound
  <2>4. ASSUME L!Bound(l), L!Bound(l)', name[lis'[l].addr] = l
        PROVE  name'[lis'[l].addr] = l
    <3>1. k # l /\ lis'[l] = lis[l] /\ L!Listens(l) /\ L!Listens(k)
      BY <2>1, <2>2, <2>4 DEF L!Bound, L!Listens
    <3>2. lis[l].addr \in Addresses /\ lis[k].addr \in Addresses /\ name[lis[l].addr] = l
      BY <1>1, <2>4, <3>1
    <3>3. CASE L!Protocol(lis[k].addr) = "tcp"
      BY <1>1, <2>1, <3>1, <3>2, <3>3 DEF L!close_tcp
    <3>4. CASE L!Protocol(lis[k].addr) # "tcp" /\ lis[k].addr # lis[l].addr
      BY <1>1, <2>1, <3>1, <3>2, <3>4 DEF L!close_ipc
    <3>5. CASE L!Protocol(lis[k].addr) # "tcp" /\ lis[k].addr = lis[l].addr
      BY <3>1, <3>5 DEF ListenInv, OneFile
    <3> QED
      BY <3>3, <3>4, <3>5
  <2> QED
    BY <2>3, <2>4
<1>6. ASSUME UNCHANGED <<lis, name>>
      PROVE  /\ lis[l].state = "new" /\ L!Bound(l)' => name'[lis'[l].addr] = l
             /\ L!Bound(l) /\ L!Bound(l)' /\ name[lis'[l].addr] = l => name'[lis'[l].addr] = l
  BY <1>6 DEF L!Bound
<1>7. \/ \E k \in Listeners, a \in Addresses, ok \in BOOLEAN : L!bind(k, a, ok)
      \/ \E k \in Listeners : L!process_plug(k) \/ L!unbind(k)
      \/ \E k \in Listeners : L!process_term(k)
      \/ UNCHANGED <<lis, name>>
  BY DEF L!ListenNext, L!in_event, L!engine_ends, L!ConnecterStep, L!connecter_plug,
         L!connecter_timer_event, L!connecter_out_event
<1> QED
  BY <1>3, <1>4, <1>5, <1>6, <1>7 DEF L!Bound

\* Whatever is bound, unbound, accepted, refused and lost, every open descriptor
\* has exactly one holder, and a listener is reached under its address until it is
\* closed: unless an ipc address is bound twice, or accept finds no descriptor
\* left for an ipc listener.
THEOREM ListenerAlwaysSafe ==
  ASSUME ListenRaces \cap {"rebind", "no descriptors"} = {}
  PROVE  MCSpec => ListenerSafe
<1> DEFINE Inv == model = "listener" => ListenInv
<1>1. MCInit => Inv
  BY InitListen DEF MCInit
<1>2. Inv /\ [MCNext]_vars => Inv'
  <2> SUFFICES ASSUME Inv, [MCNext]_vars, model' = "listener" PROVE ListenInv'
    OBVIOUS
  <2>1. model = "listener" /\ (L!ListenNext \/ UNCHANGED listenVars)
    BY DEF MCNext, vars
  <2>2. CASE L!ListenNext
    BY <2>1, <2>2, NextListen
  <2>3. CASE UNCHANGED listenVars
    BY <2>1, <2>3, ListenStutters DEF listenVars
  <2> QED
    BY <2>1, <2>2, <2>3
<1>3. Inv /\ Inv' /\ [MCNext]_vars => [model = "listener" => L!ListenerStep]_listenVars
  <2> SUFFICES ASSUME Inv, Inv', [MCNext]_vars, model = "listener", ~ UNCHANGED listenVars
               PROVE  L!ListenerStep
    OBVIOUS
  <2>1. L!ListenNext /\ model' = model
    BY DEF MCNext, vars
  <2>2. ListenInv /\ ListenInv'
    BY <2>1
  <2>3. (ListenTypeOK /\ HeldOnce => L!FdsHeld)'
    BY HeldCounts, PTL
  <2>4. L!FdsHeld'
    BY <2>2, <2>3 DEF ListenInv
  <2> QED
    BY <2>1, <2>2, <2>4, NameKept DEF L!ListenerStep
<1> QED
  BY <1>1, <1>2, <1>3, PTL DEF MCSpec, ListenerSafe
-----------------------------------------------------------------------------
(* SocketCall.                                                             *)

Asked == [Sockets -> SUBSET {"in", "out"}]
SockRecords ==
  [pending : Nat, in_active : BOOLEAN, asleep : BOOLEAN, outq : Nat, outstanding : Nat,
   out_active : BOOLEAN, mailbox : [read : BOOLEAN, writes : Nat, stop : BOOLEAN],
   ctx_terminated : BOOLEAN, ticks : Nat]
AppRecords ==
  [pc : {"idle", "send", "send_loop", "recv", "recv_loop", "poll", "poll_loop"},
   op : {"none", "send", "recv", "poll"}, s : Sockets \cup {CHOOSE s \in Sockets : TRUE},
   items : Asked, timeout : Int, left : Int, wait_left : Int, block : BOOLEAN,
   first_pass : BOOLEAN, revents : Asked,
   ret : {"none", "ok", "EAGAIN", "ETERM", "EINTR"}, owed : Asked]

\* A side that is not asleep and does not know of its messages, or of its room,
\* has the command on its way.
Told(r) ==
  /\ r.asleep => r.pending = 0
  /\ ~ r.in_active /\ ~ r.asleep => r.mailbox.read
  /\ r.outstanding = r.outq + r.mailbox.writes
  /\ ~ r.out_active => r.outstanding >= Hwm
GoodSock(r) == r \in SockRecords /\ Told(r)

\* What is owed to the call stays there, as only this thread takes it away.
Of(pc) == CASE pc \in {"send", "send_loop"} -> "send"
            [] pc \in {"recv", "recv_loop"} -> "recv"
            [] pc \in {"poll", "poll_loop"} -> "poll"
            [] OTHER -> "none"
AppRight ==
  /\ app.op = Of(app.pc)
  /\ app.timeout = 0 => app.left = 0
  /\ app.op \in {"send", "recv"} => app.s \in Sockets
  /\ \A s \in Sockets :
       /\ app.owed[s] \subseteq app.items[s]
       /\ "in" \in app.owed[s] => app.op # "send" /\ sock[s].pending > 0
       /\ "out" \in app.owed[s] => app.op = "poll" /\ sock[s].outq < Hwm
       /\ app.op = "recv" => app.items[s] = IF s = app.s THEN {"in"} ELSE {}

CallInv ==
  /\ sock \in [Sockets -> SockRecords] /\ (\A s \in Sockets : Told(sock[s]))
  /\ app \in AppRecords /\ AppRight

\* What process_commands leaves is known to the socket.
LEMMA CommandsTell ==
  ASSUME NEW r, GoodSock(r)
  PROVE  LET p == S!process_commands(r)
         IN  /\ GoodSock(p) /\ p.pending = r.pending /\ p.outq = r.outq
             /\ r.pending > 0 => S!has_in(p)
             /\ r.outq < Hwm => S!has_out(p)
<1> DEFINE p == S!process_commands(r)
           w == r.mailbox.writes
<1>1. /\ r \in SockRecords /\ Told(r) /\ Hwm \in Nat
      /\ r.mailbox \in [read : BOOLEAN, writes : Nat, stop : BOOLEAN]
  BY CallsAssumption DEF GoodSock, SockRecords
<1>2. r.outstanding - w = r.outq /\ r.outq \in Nat /\ w \in Nat /\ r.pending \in Nat
  BY <1>1 DEF Told, SockRecords
<1>3. /\ p.pending = r.pending /\ p.outq = r.outq /\ p.asleep = r.asleep
      /\ p.in_active = (r.in_active \/ r.mailbox.read) /\ p.outstanding = r.outq
      /\ p.out_active = (r.out_active \/ w > 0)
      /\ p.mailbox = [read |-> FALSE, writes |-> 0, stop |-> FALSE]
  BY <1>1, <1>2 DEF S!process_commands, S!Empty, SockRecords
<1>4. p \in SockRecords
  <2>1. /\ (r.in_active \/ r.mailbox.read) \in BOOLEAN
        /\ (r.out_active \/ r.mailbox.writes > 0) \in BOOLEAN
        /\ (r.ctx_terminated \/ r.mailbox.stop) \in BOOLEAN
        /\ r.outstanding - r.mailbox.writes \in Nat
        /\ S!Empty \in [read : BOOLEAN, writes : Nat, stop : BOOLEAN]
    BY <1>1, <1>2 DEF S!Empty
  <2> QED
    BY <1>1, <2>1 DEF S!process_commands, SockRecords
<1> HIDE DEF p, w
<1>5. Told(p)
  <2>1. p.asleep => p.pending = 0
    BY <1>1, <1>3 DEF Told
  <2>2. ~ p.in_active => p.asleep
    BY <1>1, <1>3 DEF Told, SockRecords
  <2>3. p.outstanding = p.outq + p.mailbox.writes
    BY <1>2, <1>3
  <2>4. ~ p.out_active => p.outstanding >= Hwm
    <3> SUFFICES ASSUME ~ p.out_active PROVE p.outstanding >= Hwm
      OBVIOUS
    <3>1. ~ (r.out_active \/ w > 0)
      BY <1>3
    <3>2. ~ r.out_active /\ w = 0
      BY <1>2, <3>1
    <3>3. r.outstanding >= Hwm /\ r.outstanding = r.outq + w
      BY <1>1, <3>2 DEF Told, w
    <3> QED
      BY <1>1, <1>2, <1>3, <3>2, <3>3
  <2> QED
    BY <2>1, <2>2, <2>3, <2>4 DEF Told
<1>6. r.pending > 0 => S!has_in(p)
  <2>1. r.pending > 0 => r.in_active \/ r.mailbox.read
    BY <1>1, <1>2 DEF Told
  <2> QED
    BY <1>3, <2>1 DEF S!has_in
<1>7. r.outq < Hwm => S!has_out(p)
  <2>1. r.outq < Hwm => r.out_active \/ w > 0
    BY <1>1, <1>2 DEF Told, w
  <2> QED
    BY <1>3, <2>1 DEF S!has_out
<1> QED
  BY <1>3, <1>4, <1>5, <1>6, <1>7 DEF GoodSock, p

\* Looking for a message puts a reader that finds none to sleep.
LEMMA ReadChecked ==
  ASSUME NEW r, GoodSock(r)
  PROVE  LET p == S!check_read(r)
         IN  /\ GoodSock(p) /\ p.pending = r.pending /\ p.outq = r.outq
             /\ S!has_in(p) = S!has_in(r) /\ S!has_out(p) = S!has_out(r)
<1> DEFINE p == [r EXCEPT !.in_active = FALSE, !.asleep = TRUE]
<1>1. r \in SockRecords /\ Told(r) /\ r.pending \in Nat
  BY DEF GoodSock, SockRecords
<1>2. CASE S!has_in(r) \/ ~ r.in_active
  BY <1>2 DEF S!check_read
<1>3. CASE ~ S!has_in(r) /\ r.in_active
  <2>1. S!check_read(r) = p
    BY <1>3 DEF S!check_read
  <2>2. /\ p \in SockRecords /\ p.pending = r.pending /\ p.outq = r.outq /\ p.in_active = FALSE
        /\ p.outstanding = r.outstanding /\ p.out_active = r.out_active /\ p.mailbox = r.mailbox
    BY <1>1 DEF SockRecords
  <2>3. r.pending = 0 /\ p.asleep = TRUE
    BY <1>1, <1>3 DEF S!has_in, SockRecords
  <2> HIDE DEF p
  <2>4. Told(p)
    BY <1>1, <2>2, <2>3 DEF Told
  <2> QED
    BY <1>3, <2>1, <2>2, <2>4 DEF GoodSock, S!has_in, S!has_out
<1> QED
  BY <1>2, <1>3

\* ... and looking for room one that finds none.
LEMMA WriteChecked ==
  ASSUME NEW r, GoodSock(r)
  PROVE  LET p == S!check_write(r)
         IN  /\ GoodSock(p) /\ p.pending = r.pending /\ p.outq = r.outq
             /\ S!has_in(p) = S!has_in(r) /\ S!has_out(p) = S!has_out(r)
<1> DEFINE p == [r EXCEPT !.out_active = FALSE]
<1>1. r \in SockRecords /\ Told(r) /\ r.outstanding \in Nat /\ Hwm \in Nat
  BY CallsAssumption DEF GoodSock, SockRecords
<1>2. CASE S!has_out(r)
  BY <1>2 DEF S!check_write
<1>3. CASE ~ S!has_out(r)
  <2>1. S!check_write(r) = p
    BY <1>3 DEF S!check_write
  <2>2. /\ p \in SockRecords /\ p.pending = r.pending /\ p.outq = r.outq
        /\ p.in_active = r.in_active /\ p.asleep = r.asleep /\ p.out_active = FALSE
        /\ p.outstanding = r.outstanding /\ p.mailbox = r.mailbox
    BY <1>1 DEF SockRecords
  <2>3. r.outstanding >= Hwm
    BY <1>1, <1>3 DEF S!has_out, Told
  <2> HIDE DEF p
  <2>4. Told(p)
    BY <1>1, <2>2, <2>3 DEF Told
  <2> QED
    BY <1>3, <2>1, <2>2, <2>4 DEF GoodSock, S!has_in, S!has_out
<1> QED
  BY <1>2, <1>3

\* A receive takes a message or finds none.
LEMMA Received ==
  ASSUME NEW r, GoodSock(r)
  PROVE  /\ GoodSock(S!xrecv(r))
         /\ ~ S!has_in(r) => S!xrecv(r).pending = r.pending
         /\ S!xrecv(r).outq = r.outq
<1> DEFINE p == [r EXCEPT !.pending = @ - 1]
<1>1. r \in SockRecords /\ Told(r) /\ r.pending \in Nat
  BY DEF GoodSock, SockRecords
<1>2. CASE S!has_in(r)
  <2>1. r.pending > 0 /\ r.in_active
    BY <1>2 DEF S!has_in
  <2>2. /\ p.outq = r.outq /\ p.in_active = r.in_active
        /\ p.asleep = r.asleep /\ p.out_active = r.out_active
        /\ p.outstanding = r.outstanding /\ p.mailbox = r.mailbox
    BY <1>1 DEF SockRecords
  <2>6. p \in SockRecords
    <3>1. r.pending - 1 \in Nat
      BY <1>1, <2>1
    <3> QED
      BY <1>1, <3>1 DEF SockRecords
  <2>3. ~ r.asleep
    BY <1>1, <2>1 DEF Told
  <2>4. S!xrecv(r) = p
    BY <1>2 DEF S!xrecv
  <2> HIDE DEF p
  <2>5. Told(p)
    BY <1>1, <2>1, <2>2, <2>3 DEF Told
  <2> QED
    BY <1>2, <2>2, <2>4, <2>5, <2>6 DEF GoodSock
<1>3. CASE ~ S!has_in(r)
  BY <1>3, ReadChecked DEF S!xrecv
<1> QED
  BY <1>2, <1>3

\* A send takes room or finds none.
LEMMA Sent ==
  ASSUME NEW r, GoodSock(r)
  PROVE  GoodSock(S!xsend(r)) /\ S!xsend(r).pending = r.pending
<1> DEFINE p == [r EXCEPT !.outq = @ + 1, !.outstanding = @ + 1]
<1>1. r \in SockRecords /\ Told(r)
  BY DEF GoodSock
<1>2. CASE S!has_out(r)
  <2>1. r.outq \in Nat /\ r.outstanding \in Nat /\ r.mailbox.writes \in Nat /\ r.out_active
    BY <1>1, <1>2 DEF SockRecords, S!has_out
  <2>2. /\ p.outq = r.outq + 1 /\ p.outstanding = r.outstanding + 1
        /\ p.pending = r.pending /\ p.in_active = r.in_active
        /\ p.asleep = r.asleep /\ p.out_active = r.out_active /\ p.mailbox = r.mailbox
    BY <1>1 DEF SockRecords
  <2>5. p \in SockRecords
    <3>1. r.outq + 1 \in Nat /\ r.outstanding + 1 \in Nat
      BY <2>1
    <3> QED
      BY <1>1, <3>1 DEF SockRecords
  <2>3. S!xsend(r) = p
    BY <1>2 DEF S!xsend
  <2> HIDE DEF p
  <2>4. Told(p)
    BY <1>1, <2>1, <2>2 DEF Told
  <2> QED
    BY <2>2, <2>3, <2>4, <2>5 DEF GoodSock
<1>3. CASE ~ S!has_out(r)
  BY <1>3, WriteChecked DEF S!xsend
<1> QED
  BY <1>2, <1>3

\* The count of calls says nothing about the pipe.
LEMMA Ticked ==
  ASSUME NEW r, GoodSock(r), NEW n \in Nat
  PROVE  LET p == [r EXCEPT !.ticks = n]
         IN  /\ GoodSock(p) /\ p.pending = r.pending /\ p.outq = r.outq
             /\ p.ctx_terminated = r.ctx_terminated /\ p.ticks = n
             /\ S!has_in(p) = S!has_in(r)
<1> DEFINE p == [r EXCEPT !.ticks = n]
<1>1. r \in SockRecords /\ Told(r)
  BY DEF GoodSock
<1>2. /\ p \in SockRecords /\ p.outq = r.outq /\ p.in_active = r.in_active
      /\ p.asleep = r.asleep /\ p.out_active = r.out_active /\ p.pending = r.pending
      /\ p.outstanding = r.outstanding /\ p.mailbox = r.mailbox
      /\ p.ctx_terminated = r.ctx_terminated /\ p.ticks = n
  BY <1>1 DEF SockRecords
<1> HIDE DEF p
<1>3. Told(p)
  BY <1>1, <1>2 DEF Told
<1>4. S!has_in(p) = S!has_in(r)
  BY <1>2 DEF S!has_in
<1> QED
  BY <1>2, <1>3, <1>4 DEF GoodSock, p

\* A call that returns leaves the caller idle and nothing owed.
LEMMA Returned ==
  ASSUME NEW ret \in {"ok", "EAGAIN", "ETERM", "EINTR"}, S!Returns(ret)
  PROVE  /\ app' \in AppRecords /\ AppRight'
         /\ app'.pc = "idle" /\ app'.ret = ret /\ app'.revents = S!NoItems
<1>1. /\ app'.pc = "idle" /\ app'.op = "none" /\ app'.timeout = 0 /\ app'.left = 0
      /\ app'.ret = ret /\ app'.revents = S!NoItems
      /\ app'.owed = S!NoItems /\ app'.items = S!NoItems
  BY DEF S!Returns, S!Idle
<1>2. S!NoItems \in Asked /\ \A s \in Sockets : S!NoItems[s] = {}
  BY DEF S!NoItems, Asked
<1>3. app' \in AppRecords
  <2>1. app' = [pc |-> "idle", op |-> "none", s |-> CHOOSE s \in Sockets : TRUE,
                items |-> S!NoItems, timeout |-> 0, left |-> 0, wait_left |-> 0,
                block |-> FALSE, first_pass |-> FALSE, revents |-> S!NoItems, ret |-> ret,
                owed |-> S!NoItems]
    BY DEF S!Returns, S!Idle
  <2> QED
    BY <1>2, <2>1 DEF AppRecords
<1>4. AppRight'
  BY <1>1, <1>2 DEF AppRight, Of
<1> QED
  BY <1>1, <1>3, <1>4

\* One socket changes.
LEMMA SockBecomes ==
  ASSUME CallInv, NEW s \in Sockets, NEW r, GoodSock(r), sock' = [sock EXCEPT ![s] = r]
  PROVE  /\ sock' \in [Sockets -> SockRecords] /\ (\A u \in Sockets : Told(sock'[u]))
         /\ sock'[s] = r /\ \A u \in Sockets : u # s => sock'[u] = sock[u]
  BY DEF CallInv, GoodSock

\* What is owed to a call is there as long as nobody takes it.
LEMMA StaysRight ==
  ASSUME CallInv, app' \in AppRecords, sock' \in [Sockets -> SockRecords],
         app'.op = app.op, app'.s = app.s, app'.items = app.items, app'.owed = app.owed,
         app'.timeout = app.timeout, Of(app'.pc) = Of(app.pc),
         app'.timeout = 0 => app'.left = 0,
         \A u \in Sockets :
           /\ "in" \in app.owed[u] => sock'[u].pending >= sock[u].pending
           /\ "out" \in app.owed[u] => sock'[u].outq <= sock[u].outq
  PROVE  AppRight'
<1>1. AppRight /\ Hwm \in Nat /\ sock \in [Sockets -> SockRecords]
  BY CallsAssumption DEF CallInv
<1>2. \A u \in Sockets : /\ sock[u].pending \in Nat /\ sock'[u].pending \in Nat
                         /\ sock[u].outq \in Nat /\ sock'[u].outq \in Nat
  BY <1>1 DEF SockRecords
<1>3. /\ app'.op = Of(app'.pc) /\ (app'.timeout = 0 => app'.left = 0)
      /\ (app'.op \in {"send", "recv"} => app'.s \in Sockets)
  BY <1>1 DEF AppRight
<1>4. ASSUME NEW u \in Sockets
      PROVE  /\ app'.owed[u] \subseteq app'.items[u]
             /\ "in" \in app'.owed[u] => app'.op # "send" /\ sock'[u].pending > 0
             /\ "out" \in app'.owed[u] => app'.op = "poll" /\ sock'[u].outq < Hwm
             /\ app'.op = "recv" => app'.items[u] = IF u = app'.s THEN {"in"} ELSE {}
  <2>1. /\ app.owed[u] \subseteq app.items[u]
        /\ "in" \in app.owed[u] => app.op # "send" /\ sock[u].pending > 0
        /\ "out" \in app.owed[u] => app.op = "poll" /\ sock[u].outq < Hwm
        /\ app.op = "recv" => app.items[u] = IF u = app.s THEN {"in"} ELSE {}
    BY <1>1 DEF AppRight
  <2>2. "in" \in app.owed[u] => sock'[u].pending > 0
    BY <1>2, <2>1
  <2>3. "out" \in app.owed[u] => sock'[u].outq < Hwm
    BY <1>1, <1>2, <2>1
  <2> QED
    BY <2>1, <2>2, <2>3
<1> QED
  BY <1>3, <1>4 DEF AppRight

\* What is owed is input or room, so that nothing is when neither is.
LEMMA NothingOwed ==
  ASSUME CallInv, \A s \in Sockets : "in" \notin app.owed[s] /\ "out" \notin app.owed[s]
  PROVE  app.owed = S!NoItems
<1>1. app.owed \in [Sockets -> SUBSET {"in", "out"}]
  BY DEF CallInv, AppRecords, Asked
<1>2. \A s \in Sockets : app.owed[s] = {}
  BY <1>1
<1> QED
  BY <1>1, <1>2 DEF S!NoItems

\* Nothing has happened yet.
LEMMA InitCall == ASSUME S!CallInit PROVE CallInv
<1>1. /\ sock = [s \in Sockets |-> [pending |-> 0, in_active |-> FALSE, asleep |-> TRUE,
           outq |-> 0, outstanding |-> 0, out_active |-> TRUE,
           mailbox |-> S!Empty, ctx_terminated |-> FALSE, ticks |-> 0]]
      /\ app = S!Idle
  BY DEF S!CallInit
<1>2. \A s \in Sockets : sock[s] \in SockRecords /\ Told(sock[s])
  BY <1>1 DEF SockRecords, S!Empty, Told
<1>3. sock \in [Sockets -> SockRecords]
  BY <1>1, <1>2
<1>4. S!NoItems \in Asked /\ \A s \in Sockets : S!NoItems[s] = {}
  BY DEF S!NoItems, Asked
<1>5. app \in AppRecords
  BY <1>1, <1>4 DEF S!Idle, AppRecords
<1>6. AppRight
  BY <1>1, <1>4 DEF S!Idle, AppRight, Of
<1> QED
  BY <1>2, <1>3, <1>5, <1>6 DEF CallInv

\* The peer's message, and the command that goes with it.
LEMMA Written ==
  ASSUME NEW o, GoodSock(o)
  PROVE  LET r == [o EXCEPT !.pending = @ + 1, !.asleep = FALSE,
                            !.mailbox = [o.mailbox EXCEPT !.read = @ \/ o.asleep]]
         IN  GoodSock(r) /\ r.pending = o.pending + 1 /\ r.outq = o.outq
<1> DEFINE m == [o.mailbox EXCEPT !.read = @ \/ o.asleep]
           r == [o EXCEPT !.pending = @ + 1, !.asleep = FALSE, !.mailbox = m]
<1>1. /\ o \in SockRecords /\ Told(o) /\ o.pending \in Nat /\ o.pending + 1 \in Nat
      /\ o.mailbox \in [read : BOOLEAN, writes : Nat, stop : BOOLEAN] /\ o.asleep \in BOOLEAN
  BY DEF GoodSock, SockRecords
<1>2. /\ m \in [read : BOOLEAN, writes : Nat, stop : BOOLEAN]
      /\ m.read = (o.mailbox.read \/ o.asleep) /\ m.writes = o.mailbox.writes
  BY <1>1
<1> HIDE DEF m
<1>3. r \in SockRecords
  BY <1>1, <1>2 DEF SockRecords
<1>4. /\ r.pending = o.pending + 1 /\ r.asleep = FALSE /\ r.in_active = o.in_active
      /\ r.outq = o.outq /\ r.outstanding = o.outstanding /\ r.out_active = o.out_active
      /\ r.mailbox = m
  BY <1>1 DEF SockRecords
<1> HIDE DEF r
<1>5. Told(r)
  BY <1>1, <1>2, <1>4 DEF Told
<1> QED
  BY <1>3, <1>4, <1>5 DEF GoodSock, r, m

\* The peer's read, and the command that reports it.
LEMMA ReadOut ==
  ASSUME NEW o, GoodSock(o), o.outq > 0
  PROVE  LET r == [o EXCEPT !.outq = @ - 1,
                            !.mailbox = [o.mailbox EXCEPT !.writes = @ + 1]]
         IN  GoodSock(r) /\ r.pending = o.pending /\ r.outq = o.outq - 1
<1> DEFINE m == [o.mailbox EXCEPT !.writes = @ + 1]
           r == [o EXCEPT !.outq = @ - 1, !.mailbox = m]
<1>1. /\ o \in SockRecords /\ Told(o) /\ o.outq \in Nat /\ o.outq - 1 \in Nat
      /\ o.mailbox \in [read : BOOLEAN, writes : Nat, stop : BOOLEAN]
      /\ o.mailbox.writes \in Nat /\ o.mailbox.writes + 1 \in Nat
  BY DEF GoodSock, SockRecords
<1>2. /\ m \in [read : BOOLEAN, writes : Nat, stop : BOOLEAN]
      /\ m.read = o.mailbox.read /\ m.writes = o.mailbox.writes + 1
  BY <1>1
<1> HIDE DEF m
<1>3. r \in SockRecords
  BY <1>1, <1>2 DEF SockRecords
<1>4. /\ r.pending = o.pending /\ r.asleep = o.asleep /\ r.in_active = o.in_active
      /\ r.outq = o.outq - 1 /\ r.outstanding = o.outstanding /\ r.out_active = o.out_active
      /\ r.mailbox = m
  BY <1>1 DEF SockRecords
<1> HIDE DEF r
<1>5. Told(r)
  <2>1. o.outstanding = o.outq + o.mailbox.writes
    BY <1>1 DEF Told
  <2>2. r.outstanding = r.outq + r.mailbox.writes
    BY <1>1, <1>2, <1>4, <2>1
  <2> QED
    BY <1>1, <1>2, <1>4, <2>2 DEF Told
<1> QED
  BY <1>3, <1>4, <1>5 DEF GoodSock, r, m

\* The stop command.
LEMMA Stopped ==
  ASSUME NEW o, GoodSock(o)
  PROVE  LET r == [o EXCEPT !.mailbox = [o.mailbox EXCEPT !.stop = TRUE]]
         IN  GoodSock(r) /\ r.pending = o.pending /\ r.outq = o.outq
<1> DEFINE m == [o.mailbox EXCEPT !.stop = TRUE]
           r == [o EXCEPT !.mailbox = m]
<1>1. /\ o \in SockRecords /\ Told(o)
      /\ o.mailbox \in [read : BOOLEAN, writes : Nat, stop : BOOLEAN]
  BY DEF GoodSock, SockRecords
<1>2. /\ m \in [read : BOOLEAN, writes : Nat, stop : BOOLEAN]
      /\ m.read = o.mailbox.read /\ m.writes = o.mailbox.writes
  BY <1>1
<1> HIDE DEF m
<1>3. r \in SockRecords
  BY <1>1, <1>2 DEF SockRecords
<1>4. /\ r.pending = o.pending /\ r.asleep = o.asleep /\ r.in_active = o.in_active
      /\ r.outq = o.outq /\ r.outstanding = o.outstanding /\ r.out_active = o.out_active
      /\ r.mailbox = m
  BY <1>1 DEF SockRecords
<1> HIDE DEF r
<1>5. Told(r)
  BY <1>1, <1>2, <1>4 DEF Told
<1> QED
  BY <1>3, <1>4, <1>5 DEF GoodSock, r, m

\* Changing some fields of one socket's record changes that record.
LEMMA FieldsWritten ==
  ASSUME NEW f \in [Sockets -> SockRecords], NEW s \in Sockets
  PROVE  [f EXCEPT ![s].pending = @ + 1, ![s].asleep = FALSE,
                   ![s].mailbox.read = @ \/ f[s].asleep]
           = [f EXCEPT ![s] = [f[s] EXCEPT !.pending = @ + 1, !.asleep = FALSE,
                                 !.mailbox = [f[s].mailbox EXCEPT !.read = @ \/ f[s].asleep]]]
<1> DEFINE g == [f EXCEPT ![s].pending = @ + 1, ![s].asleep = FALSE,
                          ![s].mailbox.read = @ \/ f[s].asleep]
           r == [f[s] EXCEPT !.pending = @ + 1, !.asleep = FALSE,
                             !.mailbox = [f[s].mailbox EXCEPT !.read = @ \/ f[s].asleep]]
<1>1. DOMAIN g = Sockets /\ \A u \in Sockets : u # s => g[u] = f[u]
  OBVIOUS
<1>2. g[s] = r
  BY SMT
<1> QED
  BY <1>1, <1>2

\* The same for the peer's read.
LEMMA FieldsRead ==
  ASSUME NEW f \in [Sockets -> SockRecords], NEW s \in Sockets
  PROVE  [f EXCEPT ![s].outq = @ - 1, ![s].mailbox.writes = @ + 1]
           = [f EXCEPT ![s] = [f[s] EXCEPT !.outq = @ - 1,
                                 !.mailbox = [f[s].mailbox EXCEPT !.writes = @ + 1]]]
<1> DEFINE g == [f EXCEPT ![s].outq = @ - 1, ![s].mailbox.writes = @ + 1]
           r == [f[s] EXCEPT !.outq = @ - 1,
                             !.mailbox = [f[s].mailbox EXCEPT !.writes = @ + 1]]
<1>1. DOMAIN g = Sockets /\ \A u \in Sockets : u # s => g[u] = f[u]
  OBVIOUS
<1>2. g[s] = r
  BY SMT
<1> QED
  BY <1>1, <1>2

\* A step of another thread takes nothing away that is owed.
LEMMA OthersKeep ==
  ASSUME CallInv, app' = app,
         sock' \in [Sockets -> SockRecords], \A u \in Sockets : Told(sock'[u]),
         \A u \in Sockets : sock'[u].pending >= sock[u].pending /\ sock'[u].outq <= sock[u].outq
  PROVE  CallInv'
<1>1. app \in AppRecords /\ AppRight
  BY DEF CallInv
<1>2. AppRight'
  BY <1>1, StaysRight DEF AppRight
<1> QED
  BY <1>1, <1>2 DEF CallInv

\* The peers and the context.
LEMMA PeersKeep ==
  ASSUME CallInv, \/ \E s \in Sockets : S!PeerWrites(s) \/ S!PeerReads(s)
                  \/ S!ContextStops
  PROVE  CallInv' /\ app' = app
<1>1. /\ sock \in [Sockets -> SockRecords]
      /\ \A u \in Sockets : Told(sock[u]) /\ GoodSock(sock[u])
      /\ \A u \in Sockets : sock[u].pending \in Nat /\ sock[u].outq \in Nat
  BY DEF CallInv, GoodSock, SockRecords
<1>2. app' = app
  BY DEF S!PeerWrites, S!PeerReads, S!ContextStops
<1>3. ASSUME NEW s \in Sockets, S!PeerWrites(s)
      PROVE  CallInv'
  <2> DEFINE r == [sock[s] EXCEPT !.pending = @ + 1, !.asleep = FALSE,
                     !.mailbox = [sock[s].mailbox EXCEPT !.read = @ \/ sock[s].asleep]]
  <2>1. sock' = [sock EXCEPT ![s] = r]
    <3>1. sock' = [sock EXCEPT ![s].pending = @ + 1, ![s].asleep = FALSE,
                               ![s].mailbox.read = @ \/ sock[s].asleep]
      BY <1>3 DEF S!PeerWrites
    <3>2. sock \in [Sockets -> SockRecords]
      BY <1>1
    <3> QED
      BY <3>1, <3>2, FieldsWritten, Zenon
  <2>2. GoodSock(r) /\ r.pending = sock[s].pending + 1 /\ r.outq = sock[s].outq
    BY <1>1, Written
  <2> HIDE DEF r
  <2>3. /\ sock' \in [Sockets -> SockRecords] /\ (\A u \in Sockets : Told(sock'[u]))
        /\ sock'[s] = r /\ \A u \in Sockets : u # s => sock'[u] = sock[u]
    BY <2>1, <2>2, SockBecomes
  <2>4. \A u \in Sockets : sock'[u].pending >= sock[u].pending /\ sock'[u].outq <= sock[u].outq
    BY <1>1, <2>2, <2>3
  <2> QED
    BY <1>2, <2>3, <2>4, OthersKeep
<1>4. ASSUME NEW s \in Sockets, S!PeerReads(s)
      PROVE  CallInv'
  <2> DEFINE r == [sock[s] EXCEPT !.outq = @ - 1,
                     !.mailbox = [sock[s].mailbox EXCEPT !.writes = @ + 1]]
  <2>1. sock' = [sock EXCEPT ![s] = r]
    <3>1. sock' = [sock EXCEPT ![s].outq = @ - 1, ![s].mailbox.writes = @ + 1]
      BY <1>4 DEF S!PeerReads
    <3> QED
      BY <1>1, <3>1, FieldsRead
  <2>2. GoodSock(r) /\ r.pending = sock[s].pending /\ r.outq = sock[s].outq - 1
    <3>1. sock[s].outq > 0
      BY <1>4 DEF S!PeerReads
    <3> QED
      BY <1>1, <3>1, ReadOut
  <2> HIDE DEF r
  <2>3. /\ sock' \in [Sockets -> SockRecords] /\ (\A u \in Sockets : Told(sock'[u]))
        /\ sock'[s] = r /\ \A u \in Sockets : u # s => sock'[u] = sock[u]
    BY <2>1, <2>2, SockBecomes
  <2>4. \A u \in Sockets : sock'[u].pending >= sock[u].pending /\ sock'[u].outq <= sock[u].outq
    BY <1>1, <2>2, <2>3
  <2> QED
    BY <1>2, <2>3, <2>4, OthersKeep
<1>5. CASE S!ContextStops
  <2>1. sock' = [s \in Sockets |-> [sock[s] EXCEPT !.mailbox = [@ EXCEPT !.stop = TRUE]]]
    BY <1>5 DEF S!ContextStops
  <2>2. \A s \in Sockets : /\ GoodSock(sock'[s])
                           /\ sock'[s].pending = sock[s].pending /\ sock'[s].outq = sock[s].outq
    <3> TAKE s \in Sockets
    <3>1. sock'[s] = [sock[s] EXCEPT !.mailbox = [sock[s].mailbox EXCEPT !.stop = TRUE]]
      BY <2>1
    <3> QED
      BY <1>1, <3>1, Stopped
  <2>3. sock' \in [Sockets -> SockRecords] /\ \A u \in Sockets : Told(sock'[u])
    BY <2>1, <2>2 DEF GoodSock
  <2>4. \A u \in Sockets : sock'[u].pending >= sock[u].pending /\ sock'[u].outq <= sock[u].outq
    BY <1>1, <2>2
  <2> QED
    BY <1>2, <2>3, <2>4, OthersKeep
<1> QED
  BY <1>2, <1>3, <1>4, <1>5

\* A call goes on: it asks what it asked, and is owed what it was owed.
GoesOn ==
  /\ app' \in AppRecords /\ app'.pc # "idle" /\ Of(app'.pc) = Of(app.pc)
  /\ app'.op = app.op /\ app'.s = app.s /\ app'.items = app.items /\ app'.owed = app.owed
  /\ app'.timeout = app.timeout /\ (app'.timeout = 0 => app'.left = 0)

\* A call that goes on has given no answer.
LEMMA Goes ==
  ASSUME CallInv, GoesOn, sock' \in [Sockets -> SockRecords], \A u \in Sockets : Told(sock'[u]),
         \A u \in Sockets : /\ "in" \in app.owed[u] => sock'[u].pending >= sock[u].pending
                            /\ "out" \in app.owed[u] => sock'[u].outq <= sock[u].outq
  PROVE  CallInv' /\ S!TrueAnswer
<1>1. AppRight'
  BY StaysRight DEF GoesOn
<1> QED
  BY <1>1 DEF CallInv, GoesOn, S!TrueAnswer

\* An error, or an answer without events.
LEMMA ReturnsTrue ==
  ASSUME CallInv, NEW ret \in {"ok", "EAGAIN", "ETERM", "EINTR"}, S!Returns(ret),
         sock' \in [Sockets -> SockRecords], \A u \in Sockets : Told(sock'[u]),
         ret = "EAGAIN" => app.left = 0 /\ (app.op = "recv" => app.owed = S!NoItems),
         ret = "ok" /\ app.op = "poll" => app.left = 0 /\ app.owed = S!NoItems
  PROVE  CallInv' /\ S!TrueAnswer
<1>1. /\ app' \in AppRecords /\ AppRight'
      /\ app'.pc = "idle" /\ app'.ret = ret /\ app'.revents = S!NoItems
  BY Returned
<1>2. CallInv'
  BY <1>1 DEF CallInv
<1>3. \A s \in Sockets : "in" \notin app'.revents[s] /\ "out" \notin app'.revents[s]
  BY <1>1 DEF S!NoItems
<1>4. S!TrueAnswer
  BY <1>1, <1>3 DEF S!TrueAnswer
<1> QED
  BY <1>2, <1>4

Answers(v) == app' = [S!Idle EXCEPT !.ret = "ok", !.revents = v]

\* An answer with events.
LEMMA Reports ==
  ASSUME CallInv, NEW v \in Asked, Answers(v),
         sock' \in [Sockets -> SockRecords], \A u \in Sockets : Told(sock'[u]),
         v = S!NoItems => app.left = 0 /\ app.owed = S!NoItems,
         \A u \in Sockets : /\ "in" \in v[u] => S!has_in(sock'[u])
                            /\ "out" \in v[u] => S!has_out(sock'[u])
  PROVE  CallInv' /\ S!TrueAnswer
<1>1. app' = [pc |-> "idle", op |-> "none", s |-> CHOOSE s \in Sockets : TRUE,
              items |-> S!NoItems, timeout |-> 0, left |-> 0, wait_left |-> 0,
              block |-> FALSE, first_pass |-> FALSE, revents |-> v, ret |-> "ok",
              owed |-> S!NoItems]
  BY DEF S!Idle, Answers
<1>2. S!NoItems \in Asked /\ \A s \in Sockets : S!NoItems[s] = {}
  BY DEF S!NoItems, Asked
<1>3. app' \in AppRecords
  BY <1>1, <1>2 DEF AppRecords
<1>4. /\ app'.pc = "idle" /\ app'.op = "none" /\ app'.timeout = 0 /\ app'.left = 0
      /\ app'.ret = "ok" /\ app'.revents = v /\ app'.owed = S!NoItems /\ app'.items = S!NoItems
  BY <1>1
<1>5. AppRight'
  BY <1>2, <1>4 DEF AppRight, Of
<1>6. S!TrueAnswer
  BY <1>4 DEF S!TrueAnswer
<1> QED
  BY <1>3, <1>5, <1>6 DEF CallInv

Less(z) == IF z > 0 THEN z - 1 ELSE z

\* Time runs down to nothing.
LEMMA LessTime == \A z \in Int : Less(z) \in Int /\ (z = 0 => Less(z) = 0)
  BY DEF Less

\* The ways in which a call goes on.
LEMMA GoesOnWays ==
  ASSUME CallInv, app.pc # "idle",
         \/ app.pc = "send" /\ app' = [app EXCEPT !.pc = "send_loop"]
         \/ \E b \in BOOLEAN :
              app.pc = "recv" /\ app' = [app EXCEPT !.pc = "recv_loop", !.block = b]
         \/ app.pc = "poll" /\ app' = [app EXCEPT !.pc = "poll_loop", !.first_pass = TRUE]
         \/ app' = [app EXCEPT !.block = TRUE, !.wait_left = app.left]
         \/ app' = [app EXCEPT !.first_pass = FALSE,
                               !.left = app.timeout, !.wait_left = app.timeout]
         \/ app' = [app EXCEPT !.wait_left = app.left]
         \/ S!Tick
  PROVE  GoesOn
<1>1. app \in AppRecords /\ app.left \in Int /\ app.wait_left \in Int /\ app.timeout \in Int
  BY DEF CallInv, AppRecords
<1>2. app.timeout = 0 => app.left = 0
  BY DEF CallInv, AppRight
<1>3. CASE app.pc = "send" /\ app' = [app EXCEPT !.pc = "send_loop"]
  BY <1>1, <1>2, <1>3 DEF GoesOn, AppRecords, Of
<1>4. ASSUME NEW b \in BOOLEAN, app.pc = "recv",
             app' = [app EXCEPT !.pc = "recv_loop", !.block = b]
      PROVE  GoesOn
  BY <1>1, <1>2, <1>4 DEF GoesOn, AppRecords, Of
<1>5. CASE app.pc = "poll" /\ app' = [app EXCEPT !.pc = "poll_loop", !.first_pass = TRUE]
  BY <1>1, <1>2, <1>5 DEF GoesOn, AppRecords, Of
<1>6. CASE app' = [app EXCEPT !.block = TRUE, !.wait_left = app.left]
  BY <1>1, <1>2, <1>6 DEF GoesOn, AppRecords, Of
<1>7. CASE app' = [app EXCEPT !.first_pass = FALSE,
                              !.left = app.timeout, !.wait_left = app.timeout]
  BY <1>1, <1>2, <1>7 DEF GoesOn, AppRecords, Of
<1>8. CASE app' = [app EXCEPT !.wait_left = app.left]
  BY <1>1, <1>2, <1>8 DEF GoesOn, AppRecords, Of
<1>9. CASE S!Tick
  <2>1. app' = [app EXCEPT !.left = Less(app.left), !.wait_left = Less(app.wait_left)]
    BY <1>9 DEF S!Tick, Less
  <2>2. /\ Less(app.left) \in Int /\ Less(app.wait_left) \in Int
        /\ app.timeout = 0 => Less(app.left) = 0
    BY <1>1, <1>2, LessTime
  <2> QED
    BY <1>1, <2>1, <2>2 DEF GoesOn, AppRecords, Of
<1> QED
  BY <1>3, <1>4, <1>5, <1>6, <1>7, <1>8, <1>9

\* The socket that a send or recv is called on.
LEMMA OnSocket ==
  ASSUME CallInv, app.op \in {"send", "recv"}
  PROVE  /\ app.s \in Sockets /\ GoodSock(sock[app.s])
         /\ \A u \in Sockets : sock[u].pending \in Nat /\ sock[u].outq \in Nat
         /\ app.op = "send" => \A u \in Sockets : "in" \notin app.owed[u] /\ "out" \notin app.owed[u]
         /\ app.op = "recv" => \A u \in Sockets : /\ "out" \notin app.owed[u]
                                                  /\ u # app.s => "in" \notin app.owed[u]
<1>1. app.s \in Sockets /\ sock \in [Sockets -> SockRecords] /\ \A u \in Sockets : Told(sock[u])
  BY DEF CallInv, AppRight
<1>2. \A u \in Sockets : sock[u].pending \in Nat /\ sock[u].outq \in Nat
  BY <1>1 DEF SockRecords
<1>3. \A u \in Sockets : /\ app.owed[u] \subseteq app.items[u]
                         /\ "in" \in app.owed[u] => app.op # "send"
                         /\ "out" \in app.owed[u] => app.op = "poll"
                         /\ app.op = "recv" => app.items[u] = IF u = app.s THEN {"in"} ELSE {}
  BY DEF CallInv, AppRight
<1>4. ASSUME app.op = "recv", NEW u \in Sockets, u # app.s
      PROVE  "in" \notin app.owed[u]
  BY <1>3, <1>4
<1> QED
  BY <1>1, <1>2, <1>3, <1>4 DEF GoodSock

\* A send answers or goes on.
LEMMA SendAnswers ==
  ASSUME CallInv, app.op = "send", NEW r, GoodSock(r), S!Becomes(app.s, r),
         \/ GoesOn
         \/ \E ret \in {"ok", "ETERM"} : S!Returns(ret)
         \/ S!Returns("EAGAIN") /\ app.left = 0
  PROVE  CallInv' /\ S!TrueAnswer
<1>1. /\ app.s \in Sockets
      /\ \A u \in Sockets : "in" \notin app.owed[u] /\ "out" \notin app.owed[u]
  BY OnSocket
<1>2. /\ sock' \in [Sockets -> SockRecords] /\ \A u \in Sockets : Told(sock'[u])
  BY <1>1, SockBecomes DEF S!Becomes
<1>3. CASE GoesOn
  BY <1>1, <1>2, <1>3, Goes
<1>4. ASSUME NEW ret \in {"ok", "ETERM"}, S!Returns(ret)
      PROVE  CallInv' /\ S!TrueAnswer
  BY <1>2, <1>4, ReturnsTrue
<1>5. CASE S!Returns("EAGAIN") /\ app.left = 0
  BY <1>2, <1>5, ReturnsTrue
<1> QED
  BY <1>3, <1>4, <1>5

\* Nothing changes but that the call is refused.
LEMMA Refused ==
  ASSUME CallInv, NEW ret \in {"ETERM", "EINTR"}, S!Returns(ret), sock' = sock
  PROVE  CallInv' /\ S!TrueAnswer
<1>1. sock' \in [Sockets -> SockRecords] /\ \A u \in Sockets : Told(sock'[u])
  BY DEF CallInv
<1> QED
  BY <1>1, ReturnsTrue

\* What again does.
LEMMA AgainGoes ==
  ASSUME CallInv, app.pc # "idle", S!again
  PROVE  (S!Returns("EAGAIN") /\ app.left = 0) \/ GoesOn
<1>1. CASE app.timeout > 0 /\ app.left = 0
  BY <1>1 DEF S!again
<1>2. CASE ~ (app.timeout > 0 /\ app.left = 0)
  <2>1. app' = [app EXCEPT !.block = TRUE, !.wait_left = app.left]
    BY <1>2 DEF S!again
  <2> QED
    BY <2>1, GoesOnWays
<1> QED
  BY <1>1, <1>2

\* The first attempt of a send.
LEMMA SendKeeps == ASSUME CallInv, S!send PROVE CallInv' /\ S!TrueAnswer
<1>1. app.pc = "send" /\ app.op = "send" /\ (app.timeout = 0 => app.left = 0)
  BY DEF S!send, CallInv, AppRight, Of
<1>2. app.s \in Sockets /\ GoodSock(sock[app.s])
  BY <1>1, OnSocket
<1>3. CASE sock[app.s].ctx_terminated
  BY <1>3, Refused DEF S!send
<1>4. CASE ~ sock[app.s].ctx_terminated
  <2>1. PICK r \in S!throttled_commands(sock[app.s]) :
          IF r.ctx_terminated THEN S!Returns("ETERM") /\ S!Becomes(app.s, r)
          ELSE /\ S!Becomes(app.s, S!xsend(r))
               /\ IF S!has_out(r) THEN S!Returns("ok")
                  ELSE IF app.timeout = 0 THEN S!Returns("EAGAIN")
                  ELSE app' = [app EXCEPT !.pc = "send_loop"]
    BY <1>4 DEF S!send
  <2>2. GoodSock(r)
    BY <1>2, CommandsTell DEF S!throttled_commands
  <2>3. GoodSock(S!xsend(r))
    BY <2>2, Sent
  <2>4. CASE r.ctx_terminated
    BY <1>1, <2>1, <2>2, <2>4, SendAnswers
  <2>5. CASE ~ r.ctx_terminated
    <3>1. S!Becomes(app.s, S!xsend(r))
      BY <2>1, <2>5
    <3>2. S!Returns("ok") \/ (S!Returns("EAGAIN") /\ app.left = 0) \/ GoesOn
      <4>1. \/ S!Returns("ok")
            \/ S!Returns("EAGAIN") /\ app.timeout = 0
            \/ app' = [app EXCEPT !.pc = "send_loop"]
        BY <2>1, <2>5
      <4> QED
        BY <1>1, <4>1, GoesOnWays
    <3> QED
      BY <1>1, <2>3, <3>1, <3>2, SendAnswers
  <2> QED
    BY <2>4, <2>5
<1> QED
  BY <1>3, <1>4

\* The further ones.
LEMMA SendLoopKeeps == ASSUME CallInv, S!send_loop PROVE CallInv' /\ S!TrueAnswer
<1>1. app.pc = "send_loop" /\ app.op = "send"
  BY DEF S!send_loop, CallInv, AppRight, Of
<1>2. app.s \in Sockets /\ GoodSock(sock[app.s])
  BY <1>1, OnSocket
<1> DEFINE r == S!process_commands(sock[app.s])
<1>3. IF r.ctx_terminated THEN S!Returns("ETERM") /\ S!Becomes(app.s, r)
      ELSE S!Becomes(app.s, S!xsend(r)) /\ IF S!has_out(r) THEN S!Returns("ok") ELSE S!again
  BY DEF S!send_loop
<1>4. GoodSock(r)
  BY <1>2, CommandsTell
<1> HIDE DEF r
<1>5. GoodSock(S!xsend(r))
  BY <1>4, Sent
<1>6. CASE r.ctx_terminated
  BY <1>1, <1>3, <1>4, <1>6, SendAnswers
<1>7. CASE ~ r.ctx_terminated
  <2>1. S!Becomes(app.s, S!xsend(r)) /\ (S!Returns("ok") \/ S!again)
    BY <1>3, <1>7
  <2>2. S!Returns("ok") \/ (S!Returns("EAGAIN") /\ app.left = 0) \/ GoesOn
    BY <1>1, <2>1, AgainGoes
  <2> QED
    BY <1>1, <1>5, <2>1, <2>2, SendAnswers
<1> QED
  BY <1>6, <1>7

\* A recv answers or goes on: one that finds nothing has lost nothing.
LEMMA RecvAnswers ==
  ASSUME CallInv, app.op = "recv", NEW r, GoodSock(r), S!Becomes(app.s, r),
         \/ GoesOn /\ r.pending >= sock[app.s].pending
         \/ \E ret \in {"ok", "ETERM"} : S!Returns(ret)
         \/ S!Returns("EAGAIN") /\ app.left = 0 /\ app.owed = S!NoItems
  PROVE  CallInv' /\ S!TrueAnswer
<1>1. /\ app.s \in Sockets
      /\ \A u \in Sockets : "out" \notin app.owed[u] /\ (u # app.s => "in" \notin app.owed[u])
  BY OnSocket
<1>2. /\ sock' \in [Sockets -> SockRecords] /\ \A u \in Sockets : Told(sock'[u])
      /\ sock'[app.s] = r
  BY <1>1, SockBecomes DEF S!Becomes
<1>3. CASE GoesOn /\ r.pending >= sock[app.s].pending
  BY <1>1, <1>2, <1>3, Goes
<1>4. ASSUME NEW ret \in {"ok", "ETERM"}, S!Returns(ret)
      PROVE  CallInv' /\ S!TrueAnswer
  BY <1>2, <1>4, ReturnsTrue
<1>5. CASE S!Returns("EAGAIN") /\ app.left = 0 /\ app.owed = S!NoItems
  BY <1>2, <1>5, ReturnsTrue
<1> QED
  BY <1>3, <1>4, <1>5

\* A recv that finds nothing once the commands are processed is owed nothing.
LEMMA RecvOwes ==
  ASSUME CallInv, app.op = "recv", ~ S!has_in(S!process_commands(sock[app.s]))
  PROVE  app.owed = S!NoItems
<1>1. /\ app.s \in Sockets /\ GoodSock(sock[app.s])
      /\ \A u \in Sockets : "out" \notin app.owed[u] /\ (u # app.s => "in" \notin app.owed[u])
  BY OnSocket
<1>2. ~ (sock[app.s].pending > 0)
  BY <1>1, CommandsTell
<1>3. "in" \notin app.owed[app.s]
  BY <1>1, <1>2 DEF CallInv, AppRight
<1> QED
  BY <1>1, <1>3, NothingOwed

\* The first attempt of a recv, which may look for commands.
LEMMA RecvKeeps == ASSUME CallInv, S!recv PROVE CallInv' /\ S!TrueAnswer
<1>1. app.pc = "recv" /\ app.op = "recv"
  BY DEF S!recv, CallInv, AppRight, Of
<1>2. app.s \in Sockets /\ GoodSock(sock[app.s]) /\ sock[app.s].ticks + 1 \in Nat
  BY <1>1, OnSocket DEF GoodSock, SockRecords
<1> DEFINE ticks == sock[app.s].ticks + 1
           polled == [sock[app.s] EXCEPT !.ticks = ticks]
           r0 == IF ticks = inbound_poll_rate THEN S!process_commands(polled) ELSE polled
           r == [r0 EXCEPT !.ticks = @ % inbound_poll_rate]
<1>3. CASE sock[app.s].ctx_terminated
  BY <1>3, Refused DEF S!recv
<1>4. CASE ~ sock[app.s].ctx_terminated
  <2>1. IF r0.ctx_terminated THEN S!Returns("ETERM") /\ S!Becomes(app.s, r0)
        ELSE /\ S!Becomes(app.s, S!xrecv(r))
             /\ IF S!has_in(r) THEN S!Returns("ok")
                ELSE app' = [app EXCEPT !.pc = "recv_loop", !.block = r.ticks # 0]
    BY <1>4 DEF S!recv
  <2>2. GoodSock(polled) /\ polled.pending = sock[app.s].pending
    BY <1>2, Ticked
  <2> HIDE DEF polled
  <2>3. GoodSock(r0) /\ r0.pending = sock[app.s].pending
    BY <2>2, CommandsTell
  <2> HIDE DEF r0
  <2>4. GoodSock(r) /\ r.pending = sock[app.s].pending
    <3>1. r0.ticks % inbound_poll_rate \in Nat
      BY <2>3, CallsAssumption DEF GoodSock, SockRecords
    <3> QED
      BY <2>3, <3>1, Ticked
  <2> HIDE DEF r
  <2>5. /\ GoodSock(S!xrecv(r))
        /\ ~ S!has_in(r) => S!xrecv(r).pending >= sock[app.s].pending
    BY <1>1, <2>4, Received, OnSocket
  <2>6. CASE r0.ctx_terminated
    BY <1>1, <2>1, <2>3, <2>6, RecvAnswers
  <2>7. CASE ~ r0.ctx_terminated
    <3>1. S!Becomes(app.s, S!xrecv(r))
      BY <2>1, <2>7
    <3>2. CASE S!has_in(r)
      BY <1>1, <2>1, <2>5, <2>7, <3>1, <3>2, RecvAnswers
    <3>3. CASE ~ S!has_in(r)
      <4>1. PICK b \in BOOLEAN : app' = [app EXCEPT !.pc = "recv_loop", !.block = b]
        BY <2>1, <2>7, <3>3
      <4>2. GoesOn
        BY <1>1, <4>1, GoesOnWays
      <4> QED
        BY <1>1, <2>5, <3>1, <3>3, <4>2, RecvAnswers
    <3> QED
      BY <3>2, <3>3
  <2> QED
    BY <2>6, <2>7
<1> QED
  BY <1>3, <1>4

\* The second one, once the commands are processed, of a recv that does not wait.
LEMMA RecvNonblockingKeeps ==
  ASSUME CallInv, S!recv_nonblocking PROVE CallInv' /\ S!TrueAnswer
<1>1. app.pc = "recv_loop" /\ app.op = "recv" /\ app.left = 0
  BY DEF S!recv_nonblocking, CallInv, AppRight, Of
<1>2. app.s \in Sockets /\ GoodSock(sock[app.s])
  BY <1>1, OnSocket
<1> DEFINE r == S!process_commands(sock[app.s])
           v == [S!xrecv(r) EXCEPT !.ticks = 0]
<1>3. IF r.ctx_terminated THEN S!Returns("ETERM") /\ S!Becomes(app.s, r)
      ELSE S!Becomes(app.s, v) /\ S!Returns(IF S!has_in(r) THEN "ok" ELSE "EAGAIN")
  BY DEF S!recv_nonblocking, S!recv_dontwait
<1>4. GoodSock(r) /\ (~ S!has_in(r) => app.owed = S!NoItems)
  BY <1>1, <1>2, CommandsTell, RecvOwes
<1> HIDE DEF r
<1>5. GoodSock(v)
  BY <1>4, Received, Ticked
<1> HIDE DEF v
<1>6. CASE r.ctx_terminated
  BY <1>1, <1>3, <1>4, <1>6, RecvAnswers
<1>7. CASE ~ r.ctx_terminated /\ S!has_in(r)
  BY <1>1, <1>3, <1>5, <1>7, RecvAnswers
<1>8. CASE ~ r.ctx_terminated /\ ~ S!has_in(r)
  BY <1>1, <1>3, <1>4, <1>5, <1>8, RecvAnswers
<1> QED
  BY <1>6, <1>7, <1>8

\* The further ones of a recv that waits.
LEMMA RecvLoopKeeps ==
  ASSUME CallInv, S!recv_loop PROVE CallInv' /\ S!TrueAnswer
<1>1. app.pc = "recv_loop" /\ app.op = "recv"
  BY DEF S!recv_loop, CallInv, AppRight, Of
<1>2. app.s \in Sockets /\ GoodSock(sock[app.s])
  BY <1>1, OnSocket
<1> DEFINE r == S!process_commands(sock[app.s])
           v == [S!xrecv(r) EXCEPT !.ticks = 0]
<1>3. IF r.ctx_terminated THEN S!Returns("ETERM") /\ S!Becomes(app.s, r)
      ELSE IF S!has_in(r) THEN S!Becomes(app.s, v) /\ S!Returns("ok")
      ELSE S!Becomes(app.s, S!xrecv(r)) /\ S!again
  BY DEF S!recv_loop
<1>4. /\ GoodSock(r) /\ r.pending = sock[app.s].pending
      /\ ~ S!has_in(r) => app.owed = S!NoItems
  BY <1>1, <1>2, CommandsTell, RecvOwes
<1> HIDE DEF r
<1>5. GoodSock(v)
  BY <1>4, Received, Ticked
<1> HIDE DEF v
<1>6. CASE r.ctx_terminated
  BY <1>1, <1>3, <1>4, <1>6, RecvAnswers
<1>7. CASE ~ r.ctx_terminated /\ S!has_in(r)
  BY <1>1, <1>3, <1>5, <1>7, RecvAnswers
<1>8. CASE ~ r.ctx_terminated /\ ~ S!has_in(r)
  <2>1. S!Becomes(app.s, S!xrecv(r)) /\ S!again
    BY <1>3, <1>8
  <2>2. GoodSock(S!xrecv(r)) /\ S!xrecv(r).pending >= sock[app.s].pending
    BY <1>1, <1>4, <1>8, Received, OnSocket
  <2>3. (S!Returns("EAGAIN") /\ app.left = 0) \/ GoesOn
    BY <1>1, <2>1, AgainGoes
  <2> QED
    BY <1>1, <1>4, <1>8, <2>1, <2>2, <2>3, RecvAnswers
<1> QED
  BY <1>6, <1>7, <1>8

\* What a poll's pass finds on a socket.
LEMMA EventsRight ==
  ASSUME NEW r, GoodSock(r)
  PROVE  LET p == S!getsockopt_events(r)
         IN  /\ GoodSock(p) /\ p.pending = r.pending /\ p.outq = r.outq
             /\ r.pending > 0 => S!has_in(p)
             /\ r.outq < Hwm => S!has_out(p)
<1> DEFINE c == S!process_commands(r)
           w == S!check_write(c)
<1>1. /\ GoodSock(c) /\ c.pending = r.pending /\ c.outq = r.outq
      /\ r.pending > 0 => S!has_in(c)
      /\ r.outq < Hwm => S!has_out(c)
  BY CommandsTell
<1>2. S!getsockopt_events(r) = S!check_read(w)
  BY DEF S!getsockopt_events
<1> HIDE DEF c
<1>3. /\ GoodSock(w) /\ w.pending = c.pending /\ w.outq = c.outq
      /\ S!has_in(w) = S!has_in(c) /\ S!has_out(w) = S!has_out(c)
  BY <1>1, WriteChecked
<1> HIDE DEF w
<1>4. LET p == S!check_read(w)
      IN  /\ GoodSock(p) /\ p.pending = w.pending /\ p.outq = w.outq
          /\ S!has_in(p) = S!has_in(w) /\ S!has_out(p) = S!has_out(w)
  BY <1>3, ReadChecked
<1> QED
  BY <1>1, <1>2, <1>3, <1>4

\* The pollset is built.
LEMMA PollKeeps == ASSUME CallInv, S!zmq_poll PROVE CallInv' /\ S!TrueAnswer
<1>1. app.pc = "poll" /\ sock' = sock
  BY DEF S!zmq_poll
<1>2. S!Returns("ETERM") \/ app' = [app EXCEPT !.pc = "poll_loop", !.first_pass = TRUE]
  BY DEF S!zmq_poll
<1>3. CASE S!Returns("ETERM")
  BY <1>1, <1>3, Refused
<1>4. CASE app' = [app EXCEPT !.pc = "poll_loop", !.first_pass = TRUE]
  <2>1. GoesOn
    BY <1>1, <1>4, GoesOnWays
  <2>2. /\ sock \in [Sockets -> SockRecords] /\ \A u \in Sockets : Told(sock[u])
        /\ \A u \in Sockets : sock[u].pending \in Nat /\ sock[u].outq \in Nat
    BY DEF CallInv, SockRecords
  <2> QED
    BY <1>1, <2>1, <2>2, Goes
<1> QED
  BY <1>2, <1>3, <1>4

\* A pass reports all that is owed.
LEMMA PassKeeps == ASSUME CallInv, S!poll_pass PROVE CallInv' /\ S!TrueAnswer
<1> DEFINE after == [s \in Sockets |-> S!getsockopt_events(sock[s])]
           v == [s \in Sockets |-> {e \in app.items[s] :
                   \/ e = "in" /\ S!has_in(after[s])
                   \/ e = "out" /\ S!has_out(after[s])}]
<1>1. /\ app.pc = "poll_loop" /\ app.op = "poll" /\ (app.timeout = 0 => app.left = 0)
      /\ app.items \in [Sockets -> SUBSET {"in", "out"}] /\ sock' = after
  BY DEF S!poll_pass, CallInv, AppRight, AppRecords, Asked, Of
<1>2. \/ S!Returns("ETERM")
      \/ (app.timeout = 0 \/ v # S!NoItems) /\ Answers(v)
      \/ v = S!NoItems /\ app' = [app EXCEPT !.first_pass = FALSE,
                                    !.left = app.timeout, !.wait_left = app.timeout]
      \/ v = S!NoItems /\ app.left = 0 /\ S!Returns("ok")
      \/ v = S!NoItems /\ app' = [app EXCEPT !.wait_left = app.left]
  BY DEF S!poll_pass, Answers
<1>3. \A u \in Sockets : /\ GoodSock(after[u])
                         /\ after[u].pending = sock[u].pending /\ after[u].outq = sock[u].outq
                         /\ sock[u].pending > 0 => S!has_in(after[u])
                         /\ sock[u].outq < Hwm => S!has_out(after[u])
  <2>1. \A u \in Sockets : GoodSock(sock[u])
    BY DEF CallInv, GoodSock
  <2>2. \A u \in Sockets : after[u] = S!getsockopt_events(sock[u])
    OBVIOUS
  <2> HIDE DEF after
  <2> QED
    BY <2>1, <2>2, EventsRight
<1>4. sock' \in [Sockets -> SockRecords] /\ \A u \in Sockets : Told(sock'[u])
  BY <1>1, <1>3 DEF GoodSock
<1> HIDE DEF after
<1>5. \A u \in Sockets : /\ "in" \in v[u] <=> "in" \in app.items[u] /\ S!has_in(after[u])
                         /\ "out" \in v[u] <=> "out" \in app.items[u] /\ S!has_out(after[u])
  OBVIOUS
<1>6. v \in Asked
  BY <1>1 DEF Asked
<1> HIDE DEF v
<1>7. v = S!NoItems => app.owed = S!NoItems
  <2> SUFFICES ASSUME v = S!NoItems PROVE app.owed = S!NoItems
    OBVIOUS
  <2>1. \A u \in Sockets : "in" \notin v[u] /\ "out" \notin v[u]
    BY DEF S!NoItems
  <2>2. \A u \in Sockets : /\ app.owed[u] \subseteq app.items[u]
                           /\ "in" \in app.owed[u] => sock[u].pending > 0
                           /\ "out" \in app.owed[u] => sock[u].outq < Hwm
    BY DEF CallInv, AppRight
  <2>3. \A u \in Sockets : "in" \notin app.owed[u] /\ "out" \notin app.owed[u]
    BY <1>3, <1>5, <2>1, <2>2
  <2> QED
    BY <2>3, NothingOwed
<1>8. \A u \in Sockets : sock'[u].pending >= sock[u].pending /\ sock'[u].outq <= sock[u].outq
  <2>1. \A u \in Sockets : sock[u].pending \in Nat /\ sock[u].outq \in Nat
    BY DEF CallInv, SockRecords
  <2> QED
    BY <1>1, <1>3, <2>1
<1>9. CASE S!Returns("ETERM")
  BY <1>4, <1>9, ReturnsTrue
<1>10. CASE (app.timeout = 0 \/ v # S!NoItems) /\ Answers(v)
  <2>1. \A u \in Sockets : /\ "in" \in v[u] => S!has_in(sock'[u])
                           /\ "out" \in v[u] => S!has_out(sock'[u])
    BY <1>1, <1>5
  <2> QED
    BY <1>1, <1>4, <1>6, <1>7, <1>10, <2>1, Reports
<1>11. CASE v = S!NoItems /\ app.left = 0 /\ S!Returns("ok")
  BY <1>4, <1>7, <1>11, ReturnsTrue
<1>12. CASE \/ app' = [app EXCEPT !.first_pass = FALSE,
                                  !.left = app.timeout, !.wait_left = app.timeout]
            \/ app' = [app EXCEPT !.wait_left = app.left]
  <2>1. GoesOn
    BY <1>1, <1>12, GoesOnWays
  <2> QED
    BY <1>4, <1>8, <2>1, Goes
<1> QED
  BY <1>2, <1>9, <1>10, <1>11, <1>12

\* A call is made: what is there then is owed to it.
LEMMA Made ==
  ASSUME CallInv, NEW o \in {"send", "recv", "poll"},
         NEW z \in Sockets \cup {CHOOSE s \in Sockets : TRUE}, NEW w \in Asked, NEW t \in Int,
         S!Call(o, z, w, t),
         o \in {"send", "recv"} => z \in Sockets,
         o = "send" => w = S!NoItems,
         o = "recv" => \A u \in Sockets : w[u] = IF u = z THEN {"in"} ELSE {}
  PROVE  CallInv' /\ S!TrueAnswer
<1>1. /\ app.pc = "idle" /\ sock' = sock
      /\ app' = [pc |-> o, op |-> o, s |-> z, items |-> w, timeout |-> t, left |-> t,
                 wait_left |-> t, block |-> FALSE, first_pass |-> FALSE,
                 revents |-> S!NoItems, ret |-> "none", owed |-> S!Owed(w)]
  BY DEF S!Call, S!Idle
<1>2. S!NoItems \in Asked /\ \A u \in Sockets : S!NoItems[u] = {}
  BY DEF S!NoItems, Asked
<1>3. /\ S!Owed(w) \in Asked
      /\ \A u \in Sockets :
           /\ S!Owed(w)[u] \subseteq w[u]
           /\ "in" \in S!Owed(w)[u] => "in" \in w[u] /\ sock[u].pending > 0
           /\ "out" \in S!Owed(w)[u] => "out" \in w[u] /\ sock[u].outq < Hwm
  BY DEF S!Owed, Asked
<1>4. app' \in AppRecords
  BY <1>1, <1>2, <1>3 DEF AppRecords
<1>5. /\ app'.pc = o /\ app'.op = o /\ app'.s = z /\ app'.items = w /\ app'.timeout = t
      /\ app'.left = t /\ app'.owed = S!Owed(w)
  BY <1>1
<1>6. Of(o) = o
  BY DEF Of
<1>7. ASSUME NEW u \in Sockets
      PROVE  /\ app'.owed[u] \subseteq app'.items[u]
             /\ "in" \in app'.owed[u] => app'.op # "send" /\ sock'[u].pending > 0
             /\ "out" \in app'.owed[u] => app'.op = "poll" /\ sock'[u].outq < Hwm
             /\ app'.op = "recv" => app'.items[u] = IF u = app'.s THEN {"in"} ELSE {}
  BY <1>1, <1>2, <1>3, <1>5
<1>8. AppRight'
  BY <1>5, <1>6, <1>7 DEF AppRight
<1>9. S!TrueAnswer
  BY <1>1 DEF S!TrueAnswer
<1> QED
  BY <1>1, <1>4, <1>8, <1>9 DEF CallInv

\* Every step of the calls keeps the invariant, and answers truly.
LEMMA NextCall == ASSUME CallInv, S!CallNext PROVE CallInv' /\ S!TrueAnswer
<1>1. CASE \/ \E s \in Sockets : S!PeerWrites(s) \/ S!PeerReads(s)
           \/ S!ContextStops
  <2>1. CallInv' /\ app' = app
    BY <1>1, PeersKeep
  <2> QED
    BY <2>1 DEF S!TrueAnswer
<1>2. CASE S!Tick
  <2>1. GoesOn
    BY <1>2, GoesOnWays DEF S!Tick
  <2>2. /\ sock' = sock /\ sock \in [Sockets -> SockRecords] /\ \A u \in Sockets : Told(sock[u])
        /\ \A u \in Sockets : sock[u].pending \in Nat /\ sock[u].outq \in Nat
    BY <1>2 DEF S!Tick, CallInv, SockRecords
  <2> QED
    BY <2>1, <2>2, Goes
<1>3. CASE S!AppStep
  BY <1>3, SendKeeps, SendLoopKeeps, RecvKeeps, RecvNonblockingKeeps, RecvLoopKeeps, PollKeeps,
     PassKeeps DEF S!AppStep
<1>4. CASE S!interrupted
  BY <1>4, Refused DEF S!interrupted
<1>5. ASSUME NEW s \in Called, NEW t \in Timeouts,
             S!Call("send", s, S!NoItems, t)
                \/ S!Call("recv", s, [S!NoItems EXCEPT ![s] = {"in"}], t)
      PROVE  CallInv' /\ S!TrueAnswer
  <2>1. s \in Sockets /\ t \in Int /\ S!NoItems \in Asked
    BY CallsAssumption DEF S!NoItems, Asked
  <2>2. CASE S!Call("send", s, S!NoItems, t)
    BY <2>1, <2>2, Made
  <2>3. CASE S!Call("recv", s, [S!NoItems EXCEPT ![s] = {"in"}], t)
    <3> DEFINE w == [S!NoItems EXCEPT ![s] = {"in"}]
    <3>1. w \in Asked /\ \A u \in Sockets : w[u] = IF u = s THEN {"in"} ELSE {}
      BY <2>1 DEF S!NoItems, Asked
    <3> HIDE DEF w
    <3>2. S!Call("recv", s, w, t)
      BY <2>3 DEF w
    <3> QED
      BY <2>1, <3>1, <3>2, Made
  <2> QED
    BY <1>5, <2>2, <2>3
<1>6. ASSUME NEW w \in ItemSets, NEW t \in Timeouts, S!Call("poll", app.s, w, t)
      PROVE  CallInv' /\ S!TrueAnswer
  <2>1. /\ w \in Asked /\ t \in Int
        /\ app.s \in Sockets \cup {CHOOSE s \in Sockets : TRUE}
    BY CallsAssumption DEF Asked, CallInv, AppRecords
  <2> QED
    BY <1>6, <2>1, Made
<1> QED
  BY <1>1, <1>2, <1>3, <1>4, <1>5, <1>6 DEF S!CallNext

\* Nothing changes when no step is taken.
LEMMA CallStutters == ASSUME CallInv, UNCHANGED <<sock, app, sent>> PROVE CallInv'
<1>1. AppRight'
  BY DEF CallInv, AppRight
<1> QED
  BY <1>1 DEF CallInv

\* A send, recv or zmq_poll answers truly, whatever the peers, the context, time
\* and signals do between its steps: one that was made when a message or room was
\* there does not come back without it, EAGAIN comes after the timeout, and what
\* a poll reports is there.
THEOREM CallsAlwaysHonest == MCSpec => CallsHonest
<1> DEFINE Inv == model = "call" => CallInv
<1>1. MCInit => Inv
  BY InitCall DEF MCInit
<1>2. Inv /\ [MCNext]_vars => Inv'
  <2> SUFFICES ASSUME Inv, [MCNext]_vars, model' = "call" PROVE CallInv'
    OBVIOUS
  <2>1. model = "call" /\ (S!CallNext \/ UNCHANGED callVars)
    BY DEF MCNext, vars
  <2>2. CASE S!CallNext
    BY <2>1, <2>2, NextCall
  <2>3. CASE UNCHANGED callVars
    BY <2>1, <2>3, CallStutters DEF callVars
  <2> QED
    BY <2>1, <2>2, <2>3
<1>3. Inv /\ [MCNext]_vars => [model = "call" => S!TrueAnswer]_callVars
  <2> SUFFICES ASSUME Inv, [MCNext]_vars, model = "call", ~ UNCHANGED callVars
               PROVE  S!TrueAnswer
    OBVIOUS
  <2>1. S!CallNext
    BY DEF MCNext, vars
  <2> QED
    BY <2>1, NextCall
<1> QED
  BY <1>1, <1>2, <1>3, PTL DEF MCSpec, CallsHonest
=============================================================================
