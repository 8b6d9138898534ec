--------------------------- MODULE EnginesProofs ----------------------------
(* The drivers against the three engines, for every set of jobs: a call that *)
(* returns brings the result of its own run, whatever the calls before left. *)
(* Behind them, the run of one of these engines: an invocation of            *)
(* grape_pipeline commits what the emulation model computes.                 *)
EXTENDS Engines, GrapeStep, FiniteSetTheorems, SequenceTheorems, WellFoundedInduction, TLAPS

-----------------------------------------------------------------------------
(* The places of a call, each as what is left to do there.                   *)

Ringing == <<RingBell, Op("started"), Op("wait"), Result, Clear(AllSticky), Op("return")>>
Starting == <<Op("started"), Op("wait"), Result, Clear(AllSticky), Op("return")>>
Waiting == <<Op("wait"), Result, Clear(AllSticky), Op("return")>>
Reading == <<Result, Clear(AllSticky), Op("return")>>
ClearingNow == <<Clear(AllSticky), Op("return")>>
Ending == <<Op("return")>>

Entry == Call(call)
\* mtf_cam's driver validates first, the others behind configure.
Writing == <<Configure(call), Clear(AllSticky)>> \o Ringing
Preclear == <<Clear(AllSticky)>> \o Ringing
Checking == <<Validate(call)>> \o Ringing

Recovering == CallerRecovery \o Entry
Quiescing == <<Poll("idle", {}, {}), Clear(AllSticky)>> \o Entry
Sweeping == <<Clear(AllSticky)>> \o Entry

-----------------------------------------------------------------------------
(* What holds at these places.                                               *)

OwnResult == <<call.id, IF engine = "grape" /\ bus = "model" THEN 0 ELSE call.len>>

\* No run, no flag: what a call has to find, and what it leaves.
Quiet == ~running /\ sticky = {}
BodyLoaded == engine = "grape" /\ bus = "rtl" => body = <<call.id, 0>>
Loaded == cfg = call /\ BodyLoaded

\* The run that the doorbell of this call has started, going on or over.
GoesOn ==
  /\ running /\ BodyLoaded
  /\ sticky \subseteq (IF engine = "grape" THEN {"FP"} ELSE {})
  /\ bus = "model" => engine = "mtf" /\ count = call.len
  /\ count <= call.len /\ (engine = "grape" => count < call.len)
HasEnded ==
  /\ ~running
  /\ engine # "grape" =>
       count = call.len /\ sticky = {IF bus = "model" THEN "DONE" ELSE call.ends}
  /\ engine = "grape" =>
       body = OwnResult /\ "DONE" \in sticky /\ sticky \subseteq {"DONE", "FP"}
OwnRun == latched = call /\ ~aborting /\ (GoesOn \/ HasEnded)

\* The doorbell was rejected: start() is about to raise.
Refused == ~running /\ sticky \cap StartErrors # {}

\* The result can be read.
Over ==
  /\ ~running
  /\ engine # "grape" => latched = call /\ count = call.len
  /\ engine = "grape" => body = OwnResult

Place ==
  \/ todo = <<>> /\ verdict = "raised"
  \/ todo = <<>> /\ verdict = "returned" /\ Quiet /\ got = OwnResult
  \/ todo = Recovering
  \/ todo = Quiescing
  \/ todo = Sweeping /\ ~running
  \/ todo = Entry /\ Quiet
  \/ engine = "mtf" /\ todo = Writing /\ Quiet
  \/ engine = "mtf" /\ todo = Preclear /\ Quiet /\ Loaded
  \/ engine # "mtf" /\ todo = Checking /\ Quiet /\ Loaded
  \/ todo = Ringing /\ Quiet /\ Loaded
  \/ todo = Starting /\ (OwnRun \/ Refused)
  \/ todo = Waiting /\ OwnRun
  \/ todo = Reading /\ Over
  \/ todo = ClearingNow /\ ~running /\ got = OwnResult
  \/ todo = Ending /\ Quiet /\ got = OwnResult

Ends == {"DONE", "NEVER", "ERR_RUN", "ERR_TABLE"}
CallTypes ==
  /\ running \in BOOLEAN /\ aborting \in BOOLEAN
  /\ aborting => running /\ bus = "rtl"
  /\ sticky \subseteq AllSticky /\ count \in Nat
  /\ latched.ends \in Ends /\ latched.fp \subseteq {"FP"}
  /\ cfg.ends \in Ends /\ cfg.fp \subseteq {"FP"}

Simulated == engine \in {"mtf", "huffman", "grape"} /\ bus \in {"rtl", "model"}

\* The tests need no invariant: a series of calls starts from reset.
CallInv == Simulated /\ (Calling => call \in CallJobs /\ CallTypes /\ Place)

-----------------------------------------------------------------------------
(* Scripts as sequences.                                                     *)

\* Taking the head off the left of two joined sequences.
LEMMA Drop ==
  ASSUME NEW S, NEW r \in Seq(S), NEW q \in Seq(S), NEW s \in Seq(S), r # <<>>, q = Tail(r)
  PROVE  /\ r \o s \in Seq(S) /\ r \o s # <<>>
         /\ (r \o s)[1] = r[1] /\ Tail(r \o s) = q \o s
<1> DEFINE t == r \o s
           u == q \o s
<1>1. t \in Seq(S) /\ Len(t) = Len(r) + Len(s) /\ Len(r) \in Nat /\ Len(r) > 0 /\ Len(s) \in Nat
  BY ConcatProperties, EmptySeq, LenProperties
<1>2. u \in Seq(S) /\ Len(q) = Len(r) - 1 /\ Len(u) = (Len(r) - 1) + Len(s)
  BY <1>1, ConcatProperties
<1>3. /\ t[1] = r[1]
      /\ \A i \in 1..(Len(r) + Len(s)) : t[i] = IF i <= Len(r) THEN r[i] ELSE s[i - Len(r)]
      /\ \A i \in 1..((Len(r) - 1) + Len(s)) :
           u[i] = IF i <= Len(r) - 1 THEN q[i] ELSE s[i - (Len(r) - 1)]
  BY <1>1, <1>2, ConcatProperties
<1>4. \A i \in 1..(Len(r) - 1) : q[i] = r[i + 1]
  OBVIOUS
<1> HIDE DEF t, u
<1>5. t # <<>>
  BY <1>1
<1>6. Tail(t) \in Seq(S) /\ Len(Tail(t)) = Len(u) /\ \A i \in 1..Len(u) : Tail(t)[i] = t[i + 1]
  BY <1>1, <1>2, <1>5
<1>7. ASSUME NEW i \in 1..Len(u)
      PROVE  u[i] = t[i + 1]
  <2>1. CASE i <= Len(r) - 1
    <3>1. u[i] = q[i] /\ q[i] = r[i + 1]
      BY <1>1, <1>2, <1>3, <1>4, <2>1
    <3>2. t[i + 1] = r[i + 1]
      BY <1>1, <1>2, <1>3, <2>1
    <3> QED
      BY <3>1, <3>2
  <2>2. CASE ~(i <= Len(r) - 1)
    <3>1. u[i] = s[i - (Len(r) - 1)]
      BY <1>1, <1>2, <1>3, <2>2
    <3>2. t[i + 1] = s[(i + 1) - Len(r)] /\ i - (Len(r) - 1) = (i + 1) - Len(r)
      BY <1>1, <1>2, <1>3, <2>2
    <3> QED
      BY <3>1, <3>2
  <2> QED
    BY <2>1, <2>2
<1>8. Tail(t) = u
  BY <1>2, <1>6, <1>7, SeqEqual
<1> QED
  BY <1>1, <1>3, <1>5, <1>8 DEF t, u

\* What comes first at each place and what is left behind it.
Ops == {RingBell, Op("started"), Op("wait"), Result, Clear(AllSticky), Op("return"),
        Validate(call), Configure(call), Abort, Poll("idle", {}, {})}

\* From the doorbell to the return: what comes next and what is left behind it.
LEMMA RunPlaces ==
  /\ Ringing \in Seq(Ops) /\ Ringing # <<>> /\ Ringing[1] = RingBell /\ Tail(Ringing) = Starting
  /\ Starting # <<>> /\ Starting[1] = Op("started") /\ Tail(Starting) = Waiting
  /\ Waiting # <<>> /\ Waiting[1] = Op("wait") /\ Tail(Waiting) = Reading
  /\ Reading # <<>> /\ Reading[1] = Result /\ Tail(Reading) = ClearingNow
  /\ ClearingNow # <<>> /\ ClearingNow[1] = Clear(AllSticky) /\ Tail(ClearingNow) = Ending
  /\ Ending # <<>> /\ Ending[1] = Op("return") /\ Tail(Ending) = <<>>
<1> DEFINE S == Ops
           a == RingBell
           b == Op("started")
           c == Op("wait")
           d == Result
           e == Clear(AllSticky)
           f == Op("return")
<1>1. a \in S /\ b \in S /\ c \in S /\ d \in S /\ e \in S /\ f \in S
  BY DEF Ops
<1> HIDE DEF a, b, c, d, e, f, S
<1>2. <<a, b, c, d, e, f>> \in Seq(S)
  BY <1>1
<1>3. /\ Tail(<<a, b, c, d, e, f>>) = <<b, c, d, e, f>>
      /\ Tail(<<b, c, d, e, f>>) = <<c, d, e, f>>
      /\ Tail(<<c, d, e, f>>) = <<d, e, f>>
      /\ Tail(<<d, e, f>>) = <<e, f>>
      /\ Tail(<<e, f>>) = <<f>>
      /\ Tail(<<f>>) = <<>>
  OBVIOUS
<1>4. /\ <<a, b, c, d, e, f>>[1] = a /\ <<b, c, d, e, f>>[1] = b /\ <<c, d, e, f>>[1] = c
      /\ <<d, e, f>>[1] = d /\ <<e, f>>[1] = e /\ <<f>>[1] = f
      /\ <<a, b, c, d, e, f>> # <<>> /\ <<b, c, d, e, f>> # <<>> /\ <<c, d, e, f>> # <<>>
      /\ <<d, e, f>> # <<>> /\ <<e, f>> # <<>> /\ <<f>> # <<>>
  OBVIOUS
<1>5. /\ Ringing = <<a, b, c, d, e, f>> /\ Starting = <<b, c, d, e, f>> /\ Waiting = <<c, d, e, f>>
      /\ Reading = <<d, e, f>> /\ ClearingNow = <<e, f>> /\ Ending = <<f>>
  BY DEF Ringing, Starting, Waiting, Reading, ClearingNow, Ending, a, b, c, d, e, f
<1> QED
  BY <1>2, <1>3, <1>4, <1>5 DEF a, b, c, d, e, f, S

\* The same from the first access of a call to the doorbell.
LEMMA LoadPlaces ==
  /\ Entry \in Seq(Ops) /\ Entry # <<>>
  /\ engine = "mtf" => Entry[1] = Validate(call) /\ Tail(Entry) = Writing
  /\ engine # "mtf" => Entry[1] = Configure(call) /\ Tail(Entry) = Checking
  /\ Writing # <<>> /\ Writing[1] = Configure(call) /\ Tail(Writing) = Preclear
  /\ Preclear # <<>> /\ Preclear[1] = Clear(AllSticky) /\ Tail(Preclear) = Ringing
  /\ Checking # <<>> /\ Checking[1] = Validate(call) /\ Tail(Checking) = Ringing
<1> DEFINE S == Ops
           v == Validate(call)
           c == Configure(call)
           w == Clear(AllSticky)
           s == Ringing
<1>1. v \in S /\ c \in S /\ w \in S /\ s \in Seq(S)
  BY RunPlaces DEF Ops
<1>2. Entry = (IF engine = "mtf" THEN <<v, c, w>> ELSE <<c, v>>) \o s
  BY DEF Entry, Call, Load, Ringing
<1>3. Writing = <<c, w>> \o s /\ Preclear = <<w>> \o s /\ Checking = <<v>> \o s
  BY DEF Writing, Preclear, Checking
<1> HIDE DEF S, v, c, w, s
<1>4. /\ <<v, c, w>> \in Seq(S) /\ <<c, w>> \in Seq(S) /\ <<w>> \in Seq(S)
      /\ <<c, v>> \in Seq(S) /\ <<v>> \in Seq(S) /\ <<>> \in Seq(S)
  BY <1>1
<1>5. /\ Tail(<<v, c, w>>) = <<c, w>> /\ Tail(<<c, w>>) = <<w>> /\ Tail(<<w>>) = <<>>
      /\ Tail(<<c, v>>) = <<v>> /\ Tail(<<v>>) = <<>>
      /\ <<v, c, w>> # <<>> /\ <<c, w>> # <<>> /\ <<w>> # <<>> /\ <<c, v>> # <<>> /\ <<v>> # <<>>
      /\ <<v, c, w>>[1] = v /\ <<c, w>>[1] = c /\ <<w>>[1] = w /\ <<c, v>>[1] = c /\ <<v>>[1] = v
  OBVIOUS
<1>6. <<>> \o s = s
  BY <1>1, ConcatEmptySeq
<1>7. /\ <<v, c, w>> \o s \in Seq(S) /\ <<v, c, w>> \o s # <<>>
      /\ (<<v, c, w>> \o s)[1] = v /\ Tail(<<v, c, w>> \o s) = <<c, w>> \o s
  BY <1>1, <1>4, <1>5, Drop
<1>8. /\ <<c, w>> \o s # <<>> /\ (<<c, w>> \o s)[1] = c /\ Tail(<<c, w>> \o s) = <<w>> \o s
  BY <1>1, <1>4, <1>5, Drop
<1>9. /\ <<w>> \o s # <<>> /\ (<<w>> \o s)[1] = w /\ Tail(<<w>> \o s) = s
  BY <1>1, <1>4, <1>5, <1>6, Drop
<1>10. /\ <<c, v>> \o s \in Seq(S) /\ <<c, v>> \o s # <<>>
       /\ (<<c, v>> \o s)[1] = c /\ Tail(<<c, v>> \o s) = <<v>> \o s
  BY <1>1, <1>4, <1>5, Drop
<1>11. /\ <<v>> \o s # <<>> /\ (<<v>> \o s)[1] = v /\ Tail(<<v>> \o s) = s
  BY <1>1, <1>4, <1>5, <1>6, Drop
<1>12. /\ Entry \in Seq(S) /\ Entry # <<>>
       /\ engine = "mtf" => Entry[1] = v /\ Tail(Entry) = Writing
       /\ engine # "mtf" => Entry[1] = c /\ Tail(Entry) = Checking
  BY <1>2, <1>3, <1>7, <1>10
<1> QED
  BY <1>3, <1>8, <1>9, <1>11, <1>12 DEF S, v, c, w, s

\* The same for the caller's recovery in front of a call.
LEMMA RecoveryPlaces ==
  /\ Recovering # <<>> /\ Recovering[1] = Abort /\ Tail(Recovering) = Quiescing
  /\ Quiescing # <<>> /\ Quiescing[1] = Poll("idle", {}, {}) /\ Tail(Quiescing) = Sweeping
  /\ Sweeping # <<>> /\ Sweeping[1] = Clear(AllSticky) /\ Tail(Sweeping) = Entry
<1> DEFINE S == Ops
           a == Abort
           p == Poll("idle", {}, {})
           w == Clear(AllSticky)
           s == Entry
<1>1. a \in S /\ p \in S /\ w \in S /\ s \in Seq(S)
  BY LoadPlaces DEF Ops
<1>2. Recovering = <<a, p, w>> \o s /\ Quiescing = <<p, w>> \o s /\ Sweeping = <<w>> \o s
  BY DEF Recovering, Quiescing, Sweeping, CallerRecovery
<1> HIDE DEF S, a, p, w, s
<1>3. /\ <<a, p, w>> \in Seq(S) /\ <<p, w>> \in Seq(S) /\ <<w>> \in Seq(S) /\ <<>> \in Seq(S)
  BY <1>1
<1>4. /\ Tail(<<a, p, w>>) = <<p, w>> /\ Tail(<<p, w>>) = <<w>> /\ Tail(<<w>>) = <<>>
      /\ <<a, p, w>> # <<>> /\ <<p, w>> # <<>> /\ <<w>> # <<>>
      /\ <<a, p, w>>[1] = a /\ <<p, w>>[1] = p /\ <<w>>[1] = w
  OBVIOUS
<1>5. <<>> \o s = s
  BY <1>1, ConcatEmptySeq
<1>6. /\ <<a, p, w>> \o s # <<>> /\ (<<a, p, w>> \o s)[1] = a /\ Tail(<<a, p, w>> \o s) = <<p, w>> \o s
  BY <1>1, <1>3, <1>4, Drop
<1>7. /\ <<p, w>> \o s # <<>> /\ (<<p, w>> \o s)[1] = p /\ Tail(<<p, w>> \o s) = <<w>> \o s
  BY <1>1, <1>3, <1>4, Drop
<1>8. /\ <<w>> \o s # <<>> /\ (<<w>> \o s)[1] = w /\ Tail(<<w>> \o s) = s
  BY <1>1, <1>3, <1>4, <1>5, Drop
<1> QED
  BY <1>2, <1>6, <1>7, <1>8 DEF a, p, w, s

\* The places depend on the engine and on the job alone.
LEMMA PlacesKept ==
  ASSUME engine' = engine, bus' = bus, call' = call
  PROVE  /\ Ringing' = Ringing /\ Starting' = Starting /\ Waiting' = Waiting /\ Reading' = Reading
         /\ ClearingNow' = ClearingNow /\ Ending' = Ending /\ Entry' = Entry /\ Writing' = Writing
         /\ Preclear' = Preclear /\ Checking' = Checking /\ Recovering' = Recovering
         /\ Quiescing' = Quiescing /\ Sweeping' = Sweeping
         /\ OwnResult' = OwnResult /\ StartErrors' = StartErrors
<1>1. Result' = Result
  BY DEF Result
<1>2. Ringing' = Ringing /\ Starting' = Starting /\ Waiting' = Waiting /\ Reading' = Reading
  BY <1>1 DEF Ringing, Starting, Waiting, Reading
<1>3. Entry' = Entry
  BY <1>1 DEF Entry, Call, Load
<1> QED
  BY <1>2, <1>3 DEF ClearingNow, Ending, Writing, Preclear, Checking, Recovering, Quiescing, Sweeping,
     OwnResult, StartErrors

-----------------------------------------------------------------------------
(* What the engine does on its own, and what a read of STATUS does to it.    *)

\* What a job brings.
LEMMA JobType ==
  ASSUME NEW j \in CallJobs
  PROVE  /\ j.len \in Nat /\ j.ends \in Ends /\ j.fp \subseteq {"FP"} /\ j.load = TRUE
  BY CallJobsAssumption DEF Ends

\* A run that goes on keeps the types, and an idle engine has no progress.
LEMMA ProgressTypes ==
  ASSUME CallTypes, Progress, UNCHANGED <<engine, bus>>
  PROVE  CallTypes' /\ running /\ bus = "rtl"
<1>1. bus = "rtl"
  BY DEF Progress
<1>2. CASE Emit
  BY <1>1, <1>2 DEF Emit, CallTypes
<1>3. CASE End
  <2>1. sticky' = sticky \cup {latched.ends} /\ latched.ends \in AllSticky
    BY <1>3 DEF End, Finish, CallTypes, Ends, AllSticky
  <2> QED
    BY <1>1, <1>3, <2>1 DEF End, Finish, CallTypes
<1>4. CASE TakeAbort
  BY <1>1, <1>4 DEF TakeAbort, Finish, CallTypes, AllSticky
<1>5. CASE Step
  <2>1. count' \in Nat /\ running
    BY <1>5 DEF Step, CallTypes
  <2>2. latched.fp \subseteq AllSticky
    BY DEF CallTypes, AllSticky
  <2>3. CASE count + 1 = latched.len
    BY <1>1, <1>5, <2>1, <2>2, <2>3 DEF Step, Finish, CallTypes, AllSticky
  <2>4. CASE count + 1 # latched.len /\ aborting
    BY <1>1, <1>5, <2>1, <2>2, <2>4 DEF Step, Finish, CallTypes, AllSticky
  <2>5. CASE count + 1 # latched.len /\ ~aborting
    BY <1>1, <1>5, <2>1, <2>2, <2>5 DEF Step, Finish, CallTypes, AllSticky
  <2> QED
    BY <2>3, <2>4, <2>5
<1> QED
  BY <1>2, <1>3, <1>4, <1>5 DEF Progress

\* The run of the call goes on, or ends as its job ends.
LEMMA ProgressOwn ==
  ASSUME CallTypes, OwnRun, call \in CallJobs, Progress, UNCHANGED <<engine, bus, call>>
  PROVE  OwnRun'
<1>1. bus = "rtl" /\ running /\ latched = call /\ ~aborting /\ GoesOn
  BY ProgressTypes DEF OwnRun, HasEnded, GoesOn
<1>2. call.len \in Nat /\ call.fp \subseteq {"FP"} /\ count \in Nat
  BY JobType DEF CallTypes
<1>3. CASE Emit
  BY <1>1, <1>2, <1>3 DEF Emit, OwnRun, GoesOn, BodyLoaded
<1>4. CASE End
  BY <1>1, <1>2, <1>4 DEF End, Finish, OwnRun, GoesOn, HasEnded
<1>5. CASE TakeAbort
  BY <1>1, <1>5 DEF TakeAbort
<1>6. CASE Step
  <2>1. engine = "grape" /\ body = <<call.id, 0>> /\ sticky \subseteq {"FP"} /\ count < call.len
    BY <1>1, <1>6 DEF Step, GoesOn, BodyLoaded
  <2>2. CASE count + 1 = call.len
    <3>1. /\ ~running' /\ ~aborting' /\ latched' = latched
          /\ sticky' = sticky \cup (latched.fp \cup {"DONE"})
          /\ body' = <<body[1], body[2] + count + 1>>
      BY <1>1, <1>6, <2>2 DEF Step, Finish, Advanced
    <3>2. body' = <<call.id, call.len>>
      BY <1>2, <2>1, <2>2, <3>1
    <3>3. body' = OwnResult'
      BY <1>1, <2>1, <3>2 DEF OwnResult
    <3>4. "DONE" \in sticky' /\ sticky' \subseteq {"DONE", "FP"}
      BY <1>1, <1>2, <2>1, <3>1
    <3> QED
      BY <1>1, <2>1, <3>1, <3>3, <3>4 DEF OwnRun, HasEnded
  <2>3. CASE count + 1 # call.len
    <3>1. /\ running' = running /\ aborting' = aborting /\ latched' = latched /\ body' = body
          /\ sticky' = sticky \cup latched.fp /\ count' = count + 1
      BY <1>1, <1>6, <2>3 DEF Step
    <3>2. count' < call.len /\ count' <= call.len
      BY <1>2, <2>1, <2>3, <3>1
    <3> QED
      BY <1>1, <1>2, <2>1, <3>1, <3>2 DEF OwnRun, GoesOn, BodyLoaded
  <2> QED
    BY <2>2, <2>3
<1> QED
  BY <1>3, <1>4, <1>5, <1>6 DEF Progress

\* The model behind ModelBus moves on only where STATUS is read.
LEMMA ReadTypes ==
  ASSUME CallTypes, ReadDevice, UNCHANGED <<engine, bus>>
  PROVE  CallTypes' /\ (~running => ~running' /\ sticky' = sticky)
<1>1. CASE bus = "model" /\ running
  <2>1. UNCHANGED <<cfg, latched, aborting, count>> /\ ~aborting
    BY <1>1 DEF ReadDevice, CallTypes
  <2>2. CASE polls > 1
    <3>1. running' = TRUE /\ sticky' = sticky
      BY <1>1, <2>2 DEF ReadDevice
    <3> QED
      BY <1>1, <2>1, <3>1 DEF CallTypes
  <2>3. CASE ~(polls > 1)
    <3>1. running' = (polls > 1) /\ sticky' = IF polls > 1 THEN sticky ELSE sticky \cup {"DONE"}
      BY <1>1 DEF ReadDevice
    <3>2. running' \in BOOLEAN
      <4>1. (polls > 1) \in BOOLEAN
        BY SMT
      <4> QED
        BY <3>1, <4>1
    <3>3. sticky' = sticky \cup {"DONE"}
      BY <2>3, <3>1
    <3> QED
      BY <1>1, <2>1, <3>2, <3>3 DEF CallTypes, AllSticky
  <2> QED
    BY <1>1, <2>2, <2>3
<1>2. CASE ~(bus = "model" /\ running)
  BY <1>2 DEF ReadDevice, CallTypes
<1> QED
  BY <1>1, <1>2

\* ... and it moves on the run of this call.
LEMMA ReadOwn ==
  ASSUME CallTypes, OwnRun, ReadDevice, UNCHANGED <<engine, bus, call>>
  PROVE  OwnRun'
<1>1. CASE bus = "model" /\ running
  <2>1. GoesOn /\ engine = "mtf" /\ count = call.len /\ sticky = {}
    BY <1>1 DEF OwnRun, HasEnded, GoesOn
  <2>2. CASE polls > 1
    BY <1>1, <2>1, <2>2 DEF ReadDevice, OwnRun, GoesOn, BodyLoaded
  <2>3. CASE ~(polls > 1)
    BY <1>1, <2>1, <2>3 DEF ReadDevice, OwnRun, HasEnded
  <2> QED
    BY <2>2, <2>3
<1>2. CASE ~(bus = "model" /\ running)
  <2>1. UNCHANGED <<engine, bus, call, cfg, latched, running, aborting, sticky, count, body>>
    BY <1>2 DEF ReadDevice
  <2> QED
    BY <2>1 DEF OwnRun, GoesOn, HasEnded, BodyLoaded, OwnResult
<1> QED
  BY <1>1, <1>2

\* The doorbell finds the engine quiet and the job of this call in it.
LEMMA RungOwn ==
  ASSUME Simulated, CallTypes, call \in CallJobs, Quiet, Loaded, Doorbell,
         UNCHANGED <<engine, bus, call>>
  PROVE  CallTypes' /\ (OwnRun' \/ Refused' \/ ModelRaises)
<1>1. ~running /\ sticky = {} /\ cfg = call /\ ~aborting
  BY DEF Quiet, Loaded, CallTypes
<1>2. call.len \in Nat /\ call.ends \in Ends /\ call.fp \subseteq {"FP"}
  BY JobType
<1>3. CASE Rejection(cfg) # {}
  <2>1. Reject(Rejection(cfg))
    BY <1>1, <1>3 DEF Doorbell
  <2>2. Rejection(cfg) \subseteq StartErrors /\ Rejection(cfg) \subseteq AllSticky
    BY DEF Rejection, StartErrors, AllSticky
  <2>3. Refused'
    <3>1. sticky' = Rejection(cfg) /\ ~running' /\ StartErrors' = StartErrors
      BY <1>1, <2>1 DEF Reject, StartErrors
    <3> QED
      BY <1>3, <2>2, <3>1 DEF Refused
  <2>4. CallTypes'
    BY <1>1, <2>1, <2>2 DEF Reject, CallTypes
  <2> QED
    BY <2>3, <2>4
<1>4. CASE Rejection(cfg) = {} /\ bus = "model"
  <2>1. ModelRuns
    BY <1>1, <1>4 DEF Doorbell
  <2>2. CASE ModelRaises
    BY <2>1, <2>2 DEF ModelRuns, CallTypes
  <2>3. CASE ~ModelRaises /\ engine = "mtf"
    <3>1. /\ latched' = call /\ count' = call.len /\ running' = TRUE /\ sticky' = {}
          /\ cfg' = cfg /\ aborting' = aborting
      BY <1>1, <2>1, <2>3 DEF ModelRuns
    <3>2. OwnRun'
      BY <1>1, <1>2, <1>4, <2>3, <3>1 DEF OwnRun, GoesOn, BodyLoaded
    <3>3. CallTypes'
      BY <1>1, <1>2, <1>4, <3>1 DEF CallTypes
    <3> QED
      BY <3>2, <3>3
  <2>4. CASE ~ModelRaises /\ engine # "mtf"
    <3>1. /\ latched' = call /\ count' = call.len /\ running' = running /\ sticky' = {"DONE"}
          /\ cfg' = cfg /\ aborting' = aborting
          /\ body' = IF engine = "grape" THEN <<call.id, 0>> ELSE body
      BY <1>1, <2>1, <2>4 DEF ModelRuns
    <3>2. OwnRun'
      BY <1>1, <1>2, <1>4, <2>4, <3>1 DEF OwnRun, HasEnded, OwnResult
    <3>3. CallTypes'
      BY <1>1, <1>2, <1>4, <3>1 DEF CallTypes, AllSticky
    <3> QED
      BY <3>2, <3>3
  <2> QED
    BY <2>2, <2>3, <2>4
<1>5. CASE Rejection(cfg) = {} /\ bus # "model"
  <2>1. Accept /\ bus = "rtl"
    BY <1>1, <1>5 DEF Doorbell, Simulated
  <2>2. latched' = call /\ count' = 0 /\ aborting' = FALSE /\ cfg' = cfg /\ body' = body
    BY <1>1, <2>1 DEF Accept
  <2>3. CASE engine = "grape" /\ cfg.len = 0
    <3>1. running' = FALSE /\ sticky' = {"DONE"} /\ body = <<call.id, 0>>
      BY <1>1, <2>1, <2>3 DEF Accept, Loaded, BodyLoaded
    <3>2. OwnRun'
      BY <1>1, <2>1, <2>2, <2>3, <3>1 DEF OwnRun, HasEnded, OwnResult
    <3>3. CallTypes'
      BY <1>1, <1>2, <2>2, <3>1 DEF CallTypes, AllSticky
    <3> QED
      BY <3>2, <3>3
  <2>4. CASE ~(engine = "grape" /\ cfg.len = 0)
    <3>1. running' = TRUE /\ sticky' = {}
      BY <1>1, <2>1, <2>4 DEF Accept
    <3>2. BodyLoaded' /\ count' <= call.len /\ (engine = "grape" => count' < call.len)
      BY <1>1, <1>2, <2>2, <2>4 DEF Loaded, BodyLoaded
    <3>3. OwnRun'
      BY <2>1, <2>2, <3>1, <3>2 DEF OwnRun, GoesOn
    <3>4. CallTypes'
      BY <1>1, <1>2, <2>2, <3>1 DEF CallTypes
    <3> QED
      BY <3>3, <3>4
  <2> QED
    BY <2>3, <2>4
<1> QED
  BY <1>3, <1>4, <1>5

\* Only a run that is over lets wait_done go.
LEMMA WaitedOwn ==
  ASSUME Simulated, OwnRun, WaitOver(Status)
  PROVE  HasEnded /\ latched = call
<1>1. CASE GoesOn
  <2>1. running /\ sticky \subseteq {"FP"} /\ Status = sticky \cup {"BUSY"}
    BY <1>1 DEF GoesOn, Status
  <2>2. ~WaitOver(Status)
    BY <2>1 DEF WaitOver
  <2> QED
    BY <2>2
<1> QED
  BY <1>1 DEF OwnRun

-----------------------------------------------------------------------------
(* The steps, place by place.                                                *)

DoNames == {"config", "ctrl", "clear", "clear_seen", "reset", "before", "status", "poll", "drained",
            "count", "poll_count", "body", "release", "validate", "started", "wait", "return"}

\* The operation at the head of the script says which action comes next.
LEMMA Turn ==
  ASSUME EnginesNext, todo # <<>>, NEW name, todo[1].op = name
  PROVE  \/ Runs
         \/ name = "config" /\ DoConfig
         \/ name = "ctrl" /\ DoCtrl
         \/ name \in {"clear", "clear_seen"} /\ DoClear
         \/ name = "poll" /\ DoPoll
         \/ name = "count" /\ DoCount
         \/ name = "body" /\ DoBody
         \/ name = "validate" /\ DoValidate
         \/ name = "started" /\ DoStarted
         \/ name = "wait" /\ DoWait
         \/ name = "return" /\ DoReturn
         \/ name \in {"reset", "before", "status", "drained", "poll_count", "release"}
  BY DEF EnginesNext, StartTest, StartCalls, NextCall, Doing, DoConfig, DoCtrl, DoClear, DoReset,
     DoBefore, DoStatus, DoPoll, DoDrained, DoCount, DoPollCount, DoBody, DoRelease, DoValidate,
     DoStarted, DoWait, DoReturn

\* The name of the operation at each place.
LEMMA OpNames ==
  /\ RingBell.op = "ctrl" /\ RingBell.bits = {"DOORBELL"}
  /\ Abort.op = "ctrl" /\ Abort.bits = {"ABORT"}
  /\ Clear(AllSticky).op = "clear" /\ Clear(AllSticky).bits = AllSticky
  /\ \A j : Validate(j).op = "validate" /\ Validate(j).job = j
  /\ \A j : Configure(j).op = "config" /\ Configure(j).job = j
  /\ \A n : Op(n).op = n
  /\ Result.op = IF engine = "grape" THEN "body" ELSE "count"
  /\ Poll("idle", {}, {}).op = "poll" /\ Poll("idle", {}, {}).until = "idle"
  /\ Poll("idle", {}, {}).mask = {} /\ Poll("idle", {}, {}).never = {}
  BY DEF RingBell, Ctrl, Abort, Clear, Validate, Configure, Op, Result, Poll

\* A step of a call, with everything that the places are told apart by.
Going == Simulated /\ Calling /\ call \in CallJobs /\ CallTypes /\ EnginesNext

\* The run goes on between two accesses.
LEMMA RunsKeeps ==
  ASSUME Going, Place, Runs
  PROVE  CallInv'
<1>1. /\ Progress /\ UNCHANGED <<engine, bus, todo, call, got, verdict>>
  BY DEF Runs, actorVars
<1>2. CallTypes' /\ running
  BY <1>1, ProgressTypes DEF Going
<1>3. Place'
  <2>1. \/ todo = <<>> /\ verdict = "raised"
        \/ todo = Recovering
        \/ todo = Quiescing
        \/ todo = Starting /\ OwnRun
        \/ todo = Waiting /\ OwnRun
    BY <1>2 DEF Place, Quiet, Refused, Over
  <2>2. OwnRun => OwnRun'
    BY <1>1, ProgressOwn DEF Going
  <2> QED
    BY <1>1, <2>1, <2>2, PlacesKept DEF Place
<1> QED
  BY <1>1, <1>2, <1>3 DEF CallInv, Going, Simulated

\* A call that raises leaves the engine as it is: the caller recovers.
LEMMA QuitKeeps ==
  ASSUME Going, CallTypes', Quit, UNCHANGED <<engine, bus, call>>
  PROVE  CallInv'
  BY DEF CallInv, Going, Simulated, Quit, Place, Calling

\* A step to another place of the call keeps the invariant.
LEMMA PopKeeps ==
  ASSUME Going, CallTypes', Place', UNCHANGED <<engine, bus, call>>
  PROVE  CallInv'
  BY DEF CallInv, Going, Simulated

\* The caller's recovery: CTRL.ABORT stops the run or finds none.
LEMMA AtAbort ==
  ASSUME Going, todo = Recovering
  PROVE  CallInv'
<1>1. todo # <<>> /\ todo[1] = Abort /\ Tail(todo) = Quiescing /\ Now = Abort
  BY RecoveryPlaces DEF Now
<1>2. CASE Runs
  BY <1>2, RunsKeeps DEF Place
<1>3. CASE DoCtrl
  <2>1. WriteCtrl({"ABORT"}) /\ Pop /\ UNCHANGED <<engine, bus, call>>
    BY <1>1, <1>3, OpNames DEF DoCtrl
  <2>2. CallTypes'
    <3>1. CASE bus = "rtl"
      <4>1. /\ aborting' = running /\ sticky' = sticky
            /\ UNCHANGED <<engine, bus, cfg, latched, running, count>>
        BY <2>1, <3>1 DEF WriteCtrl, AbortEngine
      <4> QED
        BY <3>1, <4>1 DEF Going, CallTypes
    <3>2. CASE bus # "rtl" /\ engine = "mtf"
      <4>1. /\ running' = FALSE /\ sticky' \subseteq sticky \cup {"ABORTED"}
            /\ UNCHANGED <<engine, bus, cfg, latched, aborting, count>>
        BY <2>1, <3>2 DEF WriteCtrl, ModelAbort
      <4> QED
        BY <3>2, <4>1 DEF Going, CallTypes, AllSticky
    <3>3. CASE bus # "rtl" /\ engine # "mtf"
      <4>1. UNCHANGED <<engine, bus, cfg, latched, running, aborting, sticky, count>>
        BY <2>1, <3>3 DEF WriteCtrl
      <4> QED
        BY <4>1 DEF Going, CallTypes
    <3> QED
      BY <3>1, <3>2, <3>3
  <2>3. Place'
    BY <1>1, <2>1, PlacesKept DEF Pop, Place
  <2> QED
    BY <2>1, <2>2, <2>3, PopKeeps
<1> QED
  BY <1>1, <1>2, <1>3, Turn, OpNames DEF Going

\* The caller's recovery: the poll for IDLE ends only on an idle engine.
LEMMA AtQuiesce ==
  ASSUME Going, todo = Quiescing
  PROVE  CallInv'
<1>1. todo # <<>> /\ todo[1] = Poll("idle", {}, {}) /\ Tail(todo) = Sweeping
      /\ Now = Poll("idle", {}, {})
  BY RecoveryPlaces DEF Now
<1>2. CASE Runs
  BY <1>2, RunsKeeps DEF Place
<1>3. CASE DoPoll
  <2>1. Leaves(Now.mask) /\ Satisfied
    BY <1>1, OpNames DEF Leaves, Satisfied
  <2>2. /\ ReadDevice /\ UNCHANGED <<engine, bus, call>>
        /\ \/ running /\ todo' = todo
           \/ ~running /\ Pop
    BY <1>3, <2>1 DEF DoPoll, ReadStatus
  <2>3. CallTypes' /\ (~running => ~running')
    BY <2>2, ReadTypes DEF Going
  <2>4. Place'
    BY <1>1, <2>2, <2>3, PlacesKept DEF Pop, Place
  <2> QED
    BY <2>2, <2>3, <2>4, PopKeeps
<1> QED
  BY <1>1, <1>2, <1>3, Turn, OpNames DEF Going

\* STATUS is cleared of everything it can show.
LEMMA Swept ==
  ASSUME Going, Now = Clear(AllSticky), DoClear
  PROVE  /\ CallTypes' /\ sticky' = {} /\ Pop
         /\ UNCHANGED <<engine, bus, call, running, cfg, body, got>>
<1>1. Now.op = "clear" /\ Now.bits = AllSticky
  BY OpNames
<1>2. /\ WriteStatus(AllSticky) /\ Pop /\ UNCHANGED <<engine, bus, call, got>>
  BY <1>1 DEF DoClear, Memory, Doing, Now
<1>3. sticky' = {} /\ UNCHANGED <<cfg, latched, running, aborting, count, body>>
  BY <1>2 DEF WriteStatus, Going, CallTypes
<1> QED
  BY <1>2, <1>3 DEF Going, CallTypes

\* Writing STATUS empties it, the engine being idle at each of the three places.
LEMMA AtClear ==
  ASSUME Going,
         \/ todo = Sweeping /\ ~running
         \/ engine = "mtf" /\ todo = Preclear /\ Quiet /\ Loaded
         \/ todo = ClearingNow /\ ~running /\ got = OwnResult
  PROVE  CallInv'
<1>1. todo # <<>> /\ todo[1] = Clear(AllSticky) /\ Now = Clear(AllSticky)
  BY RecoveryPlaces, LoadPlaces, RunPlaces DEF Now
<1>2. CASE Runs
  <2>1. Place
    BY DEF Place
  <2> QED
    BY <1>2, <2>1, RunsKeeps
<1>3. CASE DoClear
  <2>1. /\ CallTypes' /\ sticky' = {} /\ todo' = Tail(todo)
        /\ UNCHANGED <<engine, bus, call, running, cfg, body, got>>
    BY <1>1, <1>3, Swept DEF Pop
  <2>2. CASE todo = Sweeping /\ ~running
    BY <2>1, <2>2, PlacesKept, RecoveryPlaces, PopKeeps DEF Place, Quiet
  <2>3. CASE engine = "mtf" /\ todo = Preclear /\ Quiet /\ Loaded
    <3>1. todo' = Ringing' /\ Quiet' /\ Loaded'
      BY <2>1, <2>3, PlacesKept, LoadPlaces DEF Quiet, Loaded, BodyLoaded
    <3> QED
      BY <2>1, <3>1, PopKeeps DEF Place
  <2>4. CASE todo = ClearingNow /\ ~running /\ got = OwnResult
    <3>1. todo' = Ending' /\ Quiet' /\ (got = OwnResult)'
      BY <2>1, <2>4, PlacesKept, RunPlaces DEF Quiet
    <3> QED
      BY <2>1, <3>1, PopKeeps DEF Place
  <2> QED
    BY <2>2, <2>3, <2>4
<1> QED
  BY <1>1, <1>2, <1>3, Turn, OpNames DEF Going

\* validate() raises or lets the call go on; it changes nothing in the engine.
LEMMA AtValidate ==
  ASSUME Going,
         \/ engine = "mtf" /\ todo = Entry /\ Quiet
         \/ engine # "mtf" /\ todo = Checking /\ Quiet /\ Loaded
  PROVE  CallInv'
<1>1. todo # <<>> /\ todo[1] = Validate(call)
  BY LoadPlaces
<1>2. CASE Runs
  <2>1. Place
    BY DEF Place
  <2> QED
    BY <1>2, <2>1, RunsKeeps
<1>3. CASE DoValidate
  <2>1. /\ Quit \/ (Pop /\ UNCHANGED deviceVars)
        /\ UNCHANGED <<deviceVars, call>>
    BY <1>3 DEF DoValidate, Memory
  <2>2. /\ CallTypes'
        /\ UNCHANGED <<engine, bus, call, cfg, running, sticky, body>>
    BY <2>1 DEF deviceVars, Going, CallTypes
  <2>3. CASE Quit
    BY <2>2, <2>3, QuitKeeps
  <2>4. CASE Pop /\ engine = "mtf" /\ todo = Entry /\ Quiet
    <3>1. todo' = Writing' /\ Quiet' /\ engine' = "mtf"
      BY <2>2, <2>4, PlacesKept, LoadPlaces DEF Pop, Quiet
    <3> QED
      BY <2>2, <3>1, PopKeeps DEF Place
  <2>5. CASE Pop /\ engine # "mtf" /\ todo = Checking /\ Quiet /\ Loaded
    <3>1. todo' = Ringing' /\ Quiet' /\ Loaded'
      BY <2>2, <2>5, PlacesKept, LoadPlaces DEF Pop, Quiet, Loaded, BodyLoaded
    <3> QED
      BY <2>2, <3>1, PopKeeps DEF Place
  <2> QED
    BY <2>1, <2>3, <2>4, <2>5
<1> QED
  BY <1>1, <1>2, <1>3, Turn, OpNames DEF Going

\* The job is written to an idle engine; for grape_pipeline the bodies too.
LEMMA AtConfigure ==
  ASSUME Going, Quiet,
         \/ engine = "mtf" /\ todo = Writing
         \/ engine # "mtf" /\ todo = Entry
  PROVE  CallInv'
<1>1. todo # <<>> /\ todo[1] = Configure(call) /\ Now = Configure(call)
  BY LoadPlaces DEF Now
<1>2. CASE Runs
  <2>1. Place
    BY DEF Place
  <2> QED
    BY <1>2, <2>1, RunsKeeps
<1>3. CASE DoConfig
  <2>1. WriteConfig(call) /\ Pop /\ UNCHANGED <<engine, bus, call>>
    BY <1>1, <1>3, OpNames DEF DoConfig, Memory
  <2>2. /\ cfg' = call /\ UNCHANGED <<latched, running, aborting, sticky, count>>
        /\ body' = IF call.load /\ bus = "rtl" THEN <<call.id, 0>> ELSE body
    BY <2>1 DEF WriteConfig, Quiet
  <2>3. CallTypes'
    BY <2>1, <2>2, JobType DEF Going, CallTypes
  <2>4. Quiet' /\ Loaded'
    BY <2>1, <2>2, JobType DEF Going, Quiet, Loaded, BodyLoaded
  <2>5. CASE engine = "mtf" /\ todo = Writing
    <3>1. todo' = Preclear' /\ engine' = "mtf"
      BY <2>1, <2>5, PlacesKept, LoadPlaces DEF Pop
    <3> QED
      BY <2>1, <2>3, <2>4, <3>1, PopKeeps DEF Place
  <2>6. CASE engine # "mtf" /\ todo = Entry
    <3>1. todo' = Checking' /\ engine' # "mtf"
      BY <2>1, <2>6, PlacesKept, LoadPlaces DEF Pop
    <3> QED
      BY <2>1, <2>3, <2>4, <3>1, PopKeeps DEF Place
  <2> QED
    BY <2>5, <2>6
<1> QED
  BY <1>1, <1>2, <1>3, Turn, OpNames DEF Going

\* The doorbell starts a run of this job or raises an error flag.
LEMMA AtRing ==
  ASSUME Going, todo = Ringing, Quiet, Loaded
  PROVE  CallInv'
<1>1. todo # <<>> /\ todo[1] = RingBell /\ Now = RingBell /\ Tail(todo) = Starting
  BY RunPlaces DEF Now
<1>2. CASE Runs
  <2>1. Place
    BY DEF Place
  <2> QED
    BY <1>2, <2>1, RunsKeeps
<1>3. CASE DoCtrl
  <2>1. /\ WriteCtrl({"DOORBELL"}) /\ UNCHANGED <<engine, bus, call>>
        /\ IF ModelRaises THEN Quit ELSE Pop
    BY <1>1, <1>3, OpNames DEF DoCtrl
  <2>2. Doorbell
    BY <2>1 DEF WriteCtrl
  <2>3. CallTypes' /\ (OwnRun' \/ Refused' \/ ModelRaises)
    BY <2>1, <2>2, RungOwn DEF Going
  <2>4. CASE ModelRaises
    BY <2>1, <2>3, <2>4, QuitKeeps
  <2>5. CASE ~ModelRaises
    <3>1. todo' = Starting' /\ (OwnRun' \/ Refused')
      BY <1>1, <2>1, <2>3, <2>5, PlacesKept DEF Pop
    <3> QED
      BY <2>1, <2>3, <3>1, PopKeeps DEF Place
  <2> QED
    BY <2>4, <2>5
<1> QED
  BY <1>1, <1>2, <1>3, Turn, OpNames DEF Going

\* start() raises on an error flag; without one the run is the call's own.
LEMMA AtStart ==
  ASSUME Going, todo = Starting, OwnRun \/ Refused
  PROVE  CallInv'
<1>1. todo # <<>> /\ todo[1] = Op("started") /\ Tail(todo) = Waiting
  BY RunPlaces
<1>2. CASE Runs
  <2>1. Place
    BY DEF Place
  <2> QED
    BY <1>2, <2>1, RunsKeeps
<1>3. CASE DoStarted
  <2>1. /\ ReadDevice /\ UNCHANGED <<engine, bus, call>>
        /\ IF Status \cap StartErrors # {} THEN Quit ELSE Pop
    BY <1>3 DEF DoStarted, ReadStatus
  <2>2. CallTypes'
    BY <2>1, ReadTypes DEF Going
  <2>3. CASE Quit
    BY <2>1, <2>2, <2>3, QuitKeeps
  <2>4. CASE Pop /\ Status \cap StartErrors = {}
    <3>1. OwnRun
      BY <2>4 DEF Refused, Status
    <3>2. OwnRun' /\ todo' = Waiting'
      BY <1>1, <2>1, <2>4, <3>1, ReadOwn, PlacesKept DEF Going, Pop
    <3> QED
      BY <2>1, <2>2, <3>2, PopKeeps DEF Place
  <2> QED
    BY <2>1, <2>3, <2>4
<1> QED
  BY <1>1, <1>2, <1>3, Turn, OpNames DEF Going

\* wait_done() ends only with the run over, or it raises.
LEMMA AtWait ==
  ASSUME Going, todo = Waiting, OwnRun
  PROVE  CallInv'
<1>1. todo # <<>> /\ todo[1] = Op("wait") /\ Tail(todo) = Reading
  BY RunPlaces
<1>2. CASE Runs
  <2>1. Place
    BY DEF Place
  <2> QED
    BY <1>2, <2>1, RunsKeeps
<1>3. CASE DoWait
  <2>1. /\ ReadDevice /\ UNCHANGED <<engine, bus, call>>
        /\ Quit \/ UNCHANGED <<todo, verdict>> \/ (WaitOver(Status) /\ Pop)
    BY <1>3 DEF DoWait, ReadStatus
  <2>2. CallTypes'
    BY <2>1, ReadTypes DEF Going
  <2>3. CASE Quit
    BY <2>1, <2>2, <2>3, QuitKeeps
  <2>4. CASE UNCHANGED <<todo, verdict>>
    <3>1. OwnRun' /\ todo' = Waiting'
      BY <2>1, <2>4, ReadOwn, PlacesKept DEF Going
    <3> QED
      BY <2>1, <2>2, <3>1, PopKeeps DEF Place
  <2>5. CASE WaitOver(Status) /\ Pop
    <3>1. HasEnded /\ latched = call
      BY <2>5, WaitedOwn DEF Going
    <3>2. UNCHANGED <<running, sticky, latched, count, body>>
      BY <2>1, <3>1 DEF HasEnded, ReadDevice
    <3>3. Over'
      BY <2>1, <3>1, <3>2, PlacesKept DEF HasEnded, Over
    <3>4. todo' = Reading'
      BY <1>1, <2>1, <2>5, PlacesKept DEF Pop
    <3> QED
      BY <2>1, <2>2, <3>3, <3>4, PopKeeps DEF Place
  <2> QED
    BY <2>1, <2>3, <2>4, <2>5
<1> QED
  BY <1>1, <1>2, <1>3, Turn, OpNames DEF Going

\* The result read is that of the run that is over.
LEMMA AtRead ==
  ASSUME Going, todo = Reading, Over
  PROVE  CallInv'
<1>1. todo # <<>> /\ todo[1] = Result /\ Tail(todo) = ClearingNow
  BY RunPlaces
<1>2. CASE Runs
  <2>1. Place
    BY DEF Place
  <2> QED
    BY <1>2, <2>1, RunsKeeps
<1>3. CASE \/ engine # "grape" /\ DoCount
           \/ engine = "grape" /\ DoBody
  <2>1. UNCHANGED deviceVars /\ UNCHANGED call /\ Pop
    BY <1>3 DEF DoCount, ReadCount, DoBody
  <2>2. got' = OwnResult
    <3>1. CASE engine # "grape" /\ DoCount
      BY <3>1 DEF DoCount, ReadCount, Over, OwnResult
    <3>2. CASE engine = "grape" /\ DoBody
      BY <3>2 DEF DoBody, Over
    <3> QED
      BY <1>3, <3>1, <3>2
  <2>3. CallTypes' /\ UNCHANGED <<engine, bus, call, running>>
    BY <2>1 DEF deviceVars, Going, CallTypes
  <2>4. todo' = ClearingNow' /\ ~running' /\ (got = OwnResult)'
    BY <1>1, <2>1, <2>2, <2>3, PlacesKept DEF Pop, Over
  <2> QED
    BY <2>3, <2>4, PopKeeps DEF Place
<1>4. CASE engine = "grape"
  <2>1. todo[1].op = "body"
    BY <1>1, <1>4, OpNames
  <2>2. Runs \/ DoBody
    BY <1>1, <2>1, Turn DEF Going
  <2> QED
    BY <1>2, <1>3, <1>4, <2>2
<1>5. CASE engine # "grape"
  <2>1. todo[1].op = "count"
    BY <1>1, <1>5, OpNames
  <2>2. Runs \/ DoCount
    BY <1>1, <2>1, Turn DEF Going
  <2> QED
    BY <1>2, <1>3, <1>5, <2>2
<1> QED
  BY <1>4, <1>5

\* The return finds the engine idle and STATUS empty.
LEMMA AtReturn ==
  ASSUME Going, todo = Ending, Quiet, got = OwnResult
  PROVE  CallInv'
<1>1. todo # <<>> /\ todo[1] = Op("return") /\ Tail(todo) = <<>>
  BY RunPlaces
<1>2. CASE Runs
  <2>1. Place
    BY DEF Place
  <2> QED
    BY <1>2, <2>1, RunsKeeps
<1>3. CASE DoReturn
  <2>1. todo' = Tail(todo) /\ verdict' = "returned" /\ UNCHANGED <<deviceVars, call, got>>
    BY <1>3 DEF DoReturn, Memory
  <2>2. CallTypes' /\ UNCHANGED <<engine, bus, call, running, sticky, got>>
    BY <2>1 DEF deviceVars, Going, CallTypes
  <2>3. todo' = <<>> /\ Quiet' /\ (got = OwnResult)'
    BY <1>1, <2>1, <2>2, PlacesKept DEF Quiet
  <2> QED
    BY <2>1, <2>2, <2>3, PopKeeps DEF Place
<1> QED
  BY <1>1, <1>2, <1>3, Turn, OpNames DEF Going

-----------------------------------------------------------------------------
(* Between two calls, and in the tests.                                      *)

\* After reset nothing runs and STATUS is empty.
LEMMA ResetTypes ==
  ASSUME ResetDevice
  PROVE  CallTypes' /\ Quiet'
<1>1. NoJob.ends = "DONE" /\ NoJob.fp = {}
  BY DEF NoJob, Job
<1> QED
  BY <1>1 DEF ResetDevice, CallTypes, Quiet, Ends, AllSticky

\* The operations of a call depend on the engine and its job alone.
LEMMA EntryNext ==
  ASSUME engine' = engine
  PROVE  Call(call') = Entry' /\ CallerRecovery \o Call(call') = Recovering'
<1>1. Call(call') = Entry'
  BY DEF Entry, Call, Load, Result
<1> QED
  BY <1>1 DEF Recovering, CallerRecovery

\* A test, a first call or the next one begins.
LEMMA BetweenCalls ==
  ASSUME CallerRecovers, CallInv, todo = <<>>, EnginesNext
  PROVE  CallInv'
<1>1. \/ StartTest \/ StartCalls \/ NextCall \/ Runs
  BY DEF EnginesNext, Doing, DoConfig, DoCtrl, DoClear, DoReset, DoBefore, DoStatus, DoPoll, DoDrained,
     DoCount, DoPollCount, DoBody, DoRelease, DoValidate, DoStarted, DoWait, DoReturn
<1>2. CASE StartTest
  <2>1. engine' = engine /\ bus' = "rtl" /\ call' = NoJob
    BY <1>2 DEF StartTest
  <2>2. NoJob' = NoJob
    BY <2>1 DEF NoJob, Job
  <2> QED
    BY <2>1, <2>2 DEF CallInv, Simulated, Calling
<1>3. CASE StartCalls
  <2>1. /\ engine' = engine /\ bus' \in {"rtl", "model"} /\ call' \in CallJobs
        /\ ResetDevice /\ todo' = Call(call')
    BY <1>3 DEF StartCalls
  <2>2. CallTypes' /\ Quiet' /\ todo' = Entry'
    BY <2>1, ResetTypes, EntryNext
  <2> QED
    BY <2>1, <2>2 DEF CallInv, Simulated, Place
<1>4. CASE NextCall
  <2>1. /\ Calling /\ call' \in CallJobs /\ UNCHANGED deviceVars
        /\ todo' = (IF verdict = "raised" THEN CallerRecovery ELSE <<>>) \o Call(call')
    BY <1>4 DEF NextCall
  <2>2. CallTypes' /\ UNCHANGED <<engine, bus, running, sticky>>
    BY <2>1 DEF deviceVars, CallInv, CallTypes
  <2>3. CASE verdict = "raised"
    <3>1. todo' = Recovering'
      BY <2>1, <2>2, <2>3, EntryNext
    <3> QED
      BY <2>1, <2>2, <3>1 DEF CallInv, Simulated, Place
  <2>4. CASE verdict # "raised"
    <3>1. Quiet
      BY <2>1, <2>4, RunPlaces, LoadPlaces, RecoveryPlaces DEF CallInv, Place
    <3>2. todo' = Entry'
      <4>1. todo' = <<>> \o Entry'
        BY <2>1, <2>2, <2>4, EntryNext
      <4>2. (Entry \in Seq(Ops))'
        BY LoadPlaces, PTL
      <4> QED
        BY <4>1, <4>2, ConcatEmptySeq
    <3> QED
      BY <2>1, <2>2, <3>1, <3>2 DEF CallInv, Simulated, Place, Quiet
  <2> QED
    BY <2>3, <2>4
<1>5. CASE Runs
  <2>1. CASE Calling
    BY <1>5, <2>1, RunsKeeps DEF CallInv, Going
  <2>2. CASE ~Calling
    BY <1>5, <2>2 DEF Runs, actorVars, CallInv, Simulated, Calling, NoJob, Job
  <2> QED
    BY <2>1, <2>2
<1> QED
  BY <1>1, <1>2, <1>3, <1>4, <1>5

\* A test never turns into a call.
LEMMA InTests ==
  ASSUME CallInv, ~Calling, todo # <<>>, EnginesNext
  PROVE  CallInv'
<1>1. UNCHANGED <<engine, bus, call>>
  BY DEF EnginesNext, StartTest, StartCalls, NextCall, DoConfig, DoCtrl, DoClear, DoReset, DoBefore,
     DoStatus, DoPoll, DoDrained, DoCount, DoPollCount, DoBody, DoRelease, DoValidate, DoStarted,
     DoWait, DoReturn, Runs, ReadStatus, ReadCount, Memory, deviceVars, actorVars
<1> QED
  BY <1>1 DEF CallInv, Simulated, Calling, NoJob, Job

\* Each step keeps the invariant, place by place.
LEMMA CallInvStep ==
  ASSUME CallerRecovers, CallInv, EnginesNext
  PROVE  CallInv'
<1>1. CASE todo = <<>>
  BY <1>1, BetweenCalls
<1>2. CASE todo # <<>> /\ ~Calling
  BY <1>2, InTests
<1>3. CASE todo # <<>> /\ Calling
  <2>1. Going /\ Place
    BY <1>3 DEF CallInv, Going
  <2>2. CASE todo = Recovering
    BY <2>1, <2>2, AtAbort
  <2>3. CASE todo = Quiescing
    BY <2>1, <2>3, AtQuiesce
  <2>4. CASE todo = Entry /\ Quiet
    BY <2>1, <2>4, AtValidate, AtConfigure
  <2>5. CASE engine = "mtf" /\ todo = Writing /\ Quiet
    BY <2>1, <2>5, AtConfigure
  <2>6. CASE engine # "mtf" /\ todo = Checking /\ Quiet /\ Loaded
    BY <2>1, <2>6, AtValidate
  <2>7. CASE todo = Ringing /\ Quiet /\ Loaded
    BY <2>1, <2>7, AtRing
  <2>8. CASE todo = Starting /\ (OwnRun \/ Refused)
    BY <2>1, <2>8, AtStart
  <2>9. CASE todo = Waiting /\ OwnRun
    BY <2>1, <2>9, AtWait
  <2>10. CASE todo = Reading /\ Over
    BY <2>1, <2>10, AtRead
  <2>11. CASE \/ todo = Sweeping /\ ~running
              \/ engine = "mtf" /\ todo = Preclear /\ Quiet /\ Loaded
              \/ todo = ClearingNow /\ ~running /\ got = OwnResult
    BY <2>1, <2>11, AtClear
  <2>12. CASE todo = Ending /\ Quiet /\ got = OwnResult
    BY <2>1, <2>12, AtReturn
  <2> QED
    BY <1>3, <2>1, <2>2, <2>3, <2>4, <2>5, <2>6, <2>7, <2>8, <2>9, <2>10, <2>11, <2>12 DEF Place
<1> QED
  BY <1>1, <1>2, <1>3

\* Stuttering keeps it.
LEMMA CallInvStutter ==
  ASSUME CallInv, UNCHANGED vars
  PROVE  CallInv'
<1>1. /\ UNCHANGED <<engine, bus, cfg, latched, running, aborting, sticky, count, body>>
      /\ UNCHANGED <<todo, call, got, verdict>>
  BY DEF vars, deviceVars, actorVars
<1>2. Calling' = Calling /\ Simulated'
  BY <1>1 DEF Calling, NoJob, Job, CallInv, Simulated
<1>3. CallTypes' = CallTypes
  BY <1>1 DEF CallTypes
<1>4. Place' = Place
  BY <1>1, PlacesKept
  DEF Place, Quiet, Loaded, BodyLoaded, OwnRun, GoesOn, HasEnded, Refused, Over
<1> QED
  BY <1>1, <1>2, <1>3, <1>4 DEF CallInv

\* hw/*/driver: a call of one of the drivers that returns has waited for its
\* own run and brings that run's result, for every set of jobs and whatever
\* became of the calls before it, provided that its caller stops and clears the
\* engine after an exception.
THEOREM DriverReturns == CallerRecovers => (EnginesSpec => []ReturnsOwnRun)
<1> SUFFICES ASSUME CallerRecovers PROVE EnginesSpec => []ReturnsOwnRun
  OBVIOUS
<1>1. EnginesInit => CallInv
  BY DEF EnginesInit, CallInv, Simulated, Calling
<1>2. CallInv /\ [EnginesNext]_vars => CallInv'
  BY CallInvStep, CallInvStutter
<1>3. CallInv => ReturnsOwnRun
  <2> SUFFICES ASSUME CallInv, todo = <<>>, Calling, verdict = "returned"
               PROVE  ~running /\ got = OwnResult
    BY DEF ReturnsOwnRun, OwnResult
  <2> QED
    BY RunPlaces, LoadPlaces, RecoveryPlaces DEF CallInv, Place, Quiet
<1> QED
  BY <1>1, <1>2, <1>3, PTL DEF EnginesSpec

-----------------------------------------------------------------------------
(* An invocation of grape_pipeline.  First what a schedule guarantees, then   *)
(* the model's step lane by lane, then the clock.                             *)

\* What holds of 0 and goes on by one holds of every number up to k.
LEMMA UpTo ==
  ASSUME NEW k \in Nat, NEW Good, 0 \in Good, \A i \in 1..k : i - 1 \in Good => i \in Good
  PROVE  k \in Good
<1>. DEFINE Bad == {i \in 0..k : i \notin Good}
<1> SUFFICES ASSUME Bad # {} PROVE FALSE
  OBVIOUS
<1>1. PICK i \in Bad : \A j \in Bad : ~ (<<j, i>> \in OpToRel(<, Nat))
  <2>1. Bad \subseteq Nat
    OBVIOUS
  <2> HIDE DEF Bad
  <2> QED
    BY <2>1, WFMin, NatLessThanWellFounded
<1>2. i \in 1..k /\ i - 1 \in 0..k /\ i - 1 \in Nat /\ i \in Nat /\ i - 1 < i
  OBVIOUS
<1>3. <<i - 1, i>> \in OpToRel(<, Nat)
  BY <1>2 DEF OpToRel
<1> QED
  BY <1>1, <1>2, <1>3

LEMMA FlattenExists ==
  ASSUME NEW m \in Nat, NEW s
  PROVE  \E f : f = [i \in 1..m |-> IF i = 1 THEN s[i] ELSE f[i - 1] \o s[i]]
<1>. DEFINE Is(f, k) == f = [i \in 1..k |-> IF i = 1 THEN s[i] ELSE f[i - 1] \o s[i]]
            Good == {k \in 0..m : \E f : Is(f, k)}
<1>1. 0 \in Good
  <2>. DEFINE f0 == [i \in 1..0 |-> s[i]]
  <2>1. Is(f0, 0)
    OBVIOUS
  <2>2. \E f : Is(f, 0)
    <3> HIDE DEF f0, Is
    <3> QED
      BY <2>1
  <2>3. 0 \in 0..m
    OBVIOUS
  <2> HIDE DEF Is
  <2> QED
    BY <2>2, <2>3
<1>2. ASSUME NEW k \in 1..m, k - 1 \in Good PROVE k \in Good
  <2>1. PICK f : Is(f, k - 1)
    BY <1>2
  <2>. DEFINE g == [i \in 1..k |-> IF i = k THEN IF k = 1 THEN s[k] ELSE f[k - 1] \o s[k] ELSE f[i]]
  <2>2. ASSUME NEW i \in 1..k
        PROVE  g[i] = IF i = 1 THEN s[i] ELSE g[i - 1] \o s[i]
    <3>1. CASE i = k
      <4>1. k # 1 => g[k - 1] = f[k - 1]
        OBVIOUS
      <4> QED
        BY <3>1, <4>1
    <3>2. CASE i # k
      <4>1. i \in 1..(k - 1) /\ g[i] = f[i] /\ (i # 1 => i - 1 \in 1..k /\ i - 1 # k)
        BY <3>2
      <4>2. i # 1 => g[i - 1] = f[i - 1]
        BY <4>1
      <4>3. f[i] = IF i = 1 THEN s[i] ELSE f[i - 1] \o s[i]
        BY <2>1, <4>1
      <4> QED
        BY <4>1, <4>2, <4>3
    <3> QED
      BY <3>1, <3>2
  <2>3. DOMAIN g = 1..k /\ g = [i \in 1..k |-> g[i]]
    OBVIOUS
  <2> HIDE DEF g
  <2>4. g = [i \in 1..k |-> IF i = 1 THEN s[i] ELSE g[i - 1] \o s[i]]
    BY <2>2, <2>3
  <2>5. k \in 0..m
    OBVIOUS
  <2> QED
    BY <2>4, <2>5
<1>3. m \in Good
  <2> HIDE DEF Good
  <2> QED
    BY <1>1, <1>2, UpTo
<1> QED
  BY <1>3

LEMMA FlattenType ==
  ASSUME NEW S, NEW m \in Nat \ {0}, NEW s \in [1..m -> Seq(S)]
  PROVE  FlattenSeq(s) \in Seq(S)
<1>1. Len(s) = m
  OBVIOUS
<1>. DEFINE f == CHOOSE f : f = [i \in 1..m |-> IF i = 1 THEN s[i] ELSE f[i - 1] \o s[i]]
<1>2. f = [i \in 1..m |-> IF i = 1 THEN s[i] ELSE f[i - 1] \o s[i]]
  BY FlattenExists, Zenon
<1>3. FlattenSeq(s) = f[m]
  BY <1>1 DEF FlattenSeq
<1> HIDE DEF f
<1>. DEFINE Good == {0} \cup {k \in 1..m : f[k] \in Seq(S)}
<1>4. ASSUME NEW k \in 1..m, k - 1 \in Good PROVE k \in Good
  <2>1. s[k] \in Seq(S) /\ f[k] = IF k = 1 THEN s[k] ELSE f[k - 1] \o s[k]
    BY <1>2
  <2>2. CASE k = 1
    BY <2>1, <2>2
  <2>3. CASE k # 1
    <3>1. f[k - 1] \in Seq(S)
      BY <1>4, <2>3
    <3>2. f[k - 1] \o s[k] \in Seq(S)
      BY <2>1, <3>1, ConcatProperties
    <3> QED
      BY <2>1, <2>3, <3>2
  <2> QED
    BY <2>2, <2>3
<1>5. m \in Good
  <2>1. 0 \in Good /\ m \in Nat
    OBVIOUS
  <2> HIDE DEF Good
  <2> QED
    BY <2>1, <1>4, UpTo
<1> QED
  BY <1>3, <1>5

LEMMA MaxPairsNat == MaxPairs \in Nat
<1>. DEFINE m == Bodies
            row == [x \in 1..m-1 |-> [y \in 1..m-x |-> <<x, x + y>>]]
            S == Nat \X Nat
<1>1. m \in Nat /\ m - 1 \in Nat \ {0}
  BY ScheduleAssumption
<1>2. ASSUME NEW x \in 1..m-1 PROVE [y \in 1..m-x |-> <<x, x + y>>] \in Seq(S)
  <2>1. m - x \in Nat
    BY <1>1
  <2>2. \A y \in 1..m-x : <<x, x + y>> \in S
    BY <1>1
  <2> HIDE DEF S, m
  <2> QED
    BY <2>1, <2>2
<1>3. row \in [1..m-1 -> Seq(S)]
  BY <1>2
<1>4. FlattenSeq(row) \in Seq(S)
  <2> HIDE DEF row, m, S
  <2> QED
    BY <1>1, <1>3, FlattenType
<1> QED
  BY <1>4 DEF MaxPairs, Combinations

-----------------------------------------------------------------------------
(* The reservation table: every operation of the front end has one cycle at  *)
(* most, in which the results it takes are there.                            *)

LEMMA FrontEndIs ==
  /\ Len(FrontEnd) = 20 /\ Tags = 1..20 /\ PerPair = 26
  /\ \A g \in 1..20 : FrontEnd[g].unit \in {"ADD", "MUL", "SQRT", "RCP"} /\ FrontEnd[g].of \subseteq 1..20
<1>1. Len(FrontEnd) = 20
  BY DEF FrontEnd
<1>2. \A g \in 1..20 : FrontEnd[g].unit \in {"ADD", "MUL", "SQRT", "RCP"} /\ FrontEnd[g].of \subseteq 1..20
  BY DEF FrontEnd
<1> QED
  BY <1>1, <1>2 DEF Tags, PerPair

FrontId(k, g) == 26 * (k - 1) + g

LEMMA FrontIdIs ==
  ASSUME MaxPairs \in Nat, NEW k \in 1..MaxPairs, NEW g \in 1..20
  PROVE  /\ FrontId(k, g) \in 1..(26 * MaxPairs)
         /\ (FrontId(k, g) - 1) \div 26 = k - 1 /\ (FrontId(k, g) - 1) % 26 = g - 1
         /\ LaneOf(FrontId(k, g)) = NoLane
         /\ BuildOps[FrontId(k, g)] = [unit |-> FrontEnd[g].unit,
                                       needs |-> {FrontId(k, m) : m \in FrontEnd[g].of}]
<1>. DEFINE id == FrontId(k, g)
<1>1. id \in 1..(26 * MaxPairs) /\ (id - 1) \div 26 = k - 1 /\ (id - 1) % 26 = g - 1
  BY DEF FrontId
<1>2. LaneOf(id) = NoLane
  BY <1>1, FrontEndIs DEF LaneOf
<1>3. id \in 1..(PerPair * MaxPairs + 6 * Bodies) /\ id <= PerPair * MaxPairs
  BY <1>1, FrontEndIs, ScheduleAssumption
<1>4. BuildOps[id] = PairOp(id)
  BY <1>3 DEF BuildOps
<1>. DEFINE base == ((id - 1) \div PerPair) * PerPair
<1>5. base = 26 * (k - 1) /\ id - base = g /\ g \in Tags
  BY <1>1, FrontEndIs DEF FrontId
<1>6. PairOp(id) = [unit |-> FrontEnd[g].unit, needs |-> {base + m : m \in FrontEnd[g].of}]
  <2>1. PairOp(id) = IF id - base \in Tags
                     THEN [unit |-> FrontEnd[id - base].unit, needs |-> {base + m : m \in FrontEnd[id - base].of}]
                     ELSE [unit |-> "ADD", needs |-> {base + (id - base) - 6} \cup LastOn(LaneOf(id), id)]
    BY DEF PairOp
  <2> HIDE DEF base, id
  <2> QED
    BY <1>5, <2>1
<1>7. \A m : base + m = FrontId(k, m)
  BY <1>5 DEF FrontId
<1> HIDE DEF base, id
<1>8. {base + m : m \in FrontEnd[g].of} = {FrontId(k, m) : m \in FrontEnd[g].of}
  BY <1>7
<1> QED
  BY <1>1, <1>2, <1>4, <1>6, <1>8 DEF id

LEMMA FrontNeeds ==
  ASSUME MaxPairs \in Nat, NEW k \in 1..MaxPairs, NEW g \in 1..20
  PROVE  /\ BuildOps[FrontId(k, g)].unit = FrontEnd[g].unit
         /\ \A d \in FrontEnd[g].of : FrontId(k, d) \in BuildOps[FrontId(k, g)].needs
<1>. DEFINE op == BuildOps[FrontId(k, g)]
            S == {FrontId(k, m) : m \in FrontEnd[g].of}
<1>1. op = [unit |-> FrontEnd[g].unit, needs |-> S]
  BY FrontIdIs
<1>2. \A d \in FrontEnd[g].of : FrontId(k, d) \in S
  OBVIOUS
<1> HIDE DEF op, S
<1>3. op.unit = FrontEnd[g].unit /\ op.needs = S
  BY <1>1
<1> QED
  BY <1>2, <1>3 DEF op

LEMMA FrontIdOf ==
  ASSUME MaxPairs \in Nat, NEW id \in 1..(26 * MaxPairs), LaneOf(id) = NoLane
  PROVE  /\ (id - 1) \div 26 + 1 \in 1..MaxPairs /\ ((id - 1) % 26) + 1 \in 1..20
         /\ id = FrontId((id - 1) \div 26 + 1, ((id - 1) % 26) + 1)
<1>. DEFINE k == (id - 1) \div 26 + 1
            m == (id - 1) % 26
<1>1. k \in 1..MaxPairs /\ m \in 0..25 /\ id = 26 * (k - 1) + m + 1
  OBVIOUS
<1>2. m - 20 < 0
  <2>1. SUFFICES ASSUME m - 20 >= 0 PROVE FALSE
    BY <1>1
  <2>2. LaneOf(id) = <<Combinations(Bodies)[k][IF m - 20 < 3 THEN 1 ELSE 2], ((m - 20) % 3) + 1>>
    BY <1>1, <2>1, FrontEndIs DEF LaneOf
  <2>3. ((m - 20) % 3) + 1 # 0
    BY <1>1, <2>1
  <2> QED
    BY <2>2, <2>3 DEF NoLane
<1> QED
  BY <1>1, <1>2 DEF FrontId

-----------------------------------------------------------------------------
(* The scheduler.                                                            *)

CycleOp(p, issues, t) == IssueCycle(issues, t)
CycleLaw == INSTANCE FoldLaws WITH Op <- CycleOp

\* What the scheduler has issued before cycle t.
Sound(issues, t) ==
  /\ \A x \in issues : /\ x[1] \in DOMAIN BuildOps /\ x[2] \in Nat /\ x[2] < t
                       /\ \A d \in BuildOps[x[1]].needs : Finished(issues, x[2], d)
  /\ \A x, y \in issues : x[1] = y[1] => x[2] = y[2]

LEMMA CycleIsSound ==
  ASSUME NEW t \in Nat, NEW issues, Sound(issues, t)
  PROVE  Sound(IssueCycle(issues, t), t + 1)
<1>. DEFINE new == IssueCycle(issues, t)
<1>1. issues \subseteq new
  BY DEF IssueCycle
<1>2. \A s, d : Finished(issues, s, d) => Finished(new, s, d)
  BY <1>1 DEF Finished
<1>3. ASSUME NEW x \in new, x \notin issues
      PROVE  /\ x[1] \in DOMAIN BuildOps /\ x[2] = t /\ \A y \in issues : y[1] # x[1]
             /\ \A d \in BuildOps[x[1]].needs : Finished(issues, t, d)
  <2>1. PICK u : \E id \in Ready(issues, t, u) : x = <<id, t>>
    BY <1>3 DEF IssueCycle, FirstOf
  <2>2. PICK id \in Ready(issues, t, u) : x = <<id, t>>
    BY <2>1
  <2> QED
    BY <2>2 DEF Ready
<1> HIDE DEF new
<1>4. ASSUME NEW x \in new
      PROVE  /\ x[1] \in DOMAIN BuildOps /\ x[2] \in Nat /\ x[2] < t + 1
             /\ \A d \in BuildOps[x[1]].needs : Finished(new, x[2], d)
  <2>1. CASE x \in issues
    BY <1>2, <2>1 DEF Sound
  <2>2. CASE x \notin issues
    BY <1>2, <1>3, <2>2
  <2> QED
    BY <2>1, <2>2
<1>5. ASSUME NEW x \in new, NEW y \in new, x[1] = y[1] PROVE x[2] = y[2]
  <2>1. CASE x \in issues /\ y \in issues
    BY <1>5, <2>1 DEF Sound
  <2>2. CASE x \notin issues /\ y \notin issues
    BY <1>3, <2>2
  <2>3. CASE x \in issues /\ y \notin issues
    BY <1>3, <1>5, <2>3
  <2>4. CASE x \notin issues /\ y \in issues
    BY <1>3, <1>5, <2>4
  <2> QED
    BY <2>1, <2>2, <2>3, <2>4
<1> QED
  BY <1>4, <1>5 DEF Sound, new

LEMMA ScheduleFold == Schedule = CycleLaw!Fold(0, {}, [t \in 1..Horizon |-> t - 1])
  BY DEF Schedule, CycleOp, CycleLaw!Fold, FoldLeft, CycleLaw!FoldLeft,
         MapThenFoldSet, CycleLaw!MapThenFoldSet, Max, CycleLaw!Max

LEMMA ScheduleIsSound == Sound(Schedule, Horizon)
<1>. DEFINE times == [t \in 1..Horizon |-> t - 1]
            h == CycleLaw!Trace(0, {}, times, Horizon)
<1>1. Horizon \in Nat /\ DOMAIN times = 1..Horizon
  BY ScheduleAssumption
<1>2. /\ h[0] = {} /\ h[Horizon] = CycleLaw!Fold(0, {}, times)
      /\ \A t \in 1..Horizon : h[t] = IssueCycle(h[t - 1], t - 1)
  <2>1. CycleLaw!IsTrace(h, 0, {}, times, Horizon)
    <3> HIDE DEF times
    <3> QED
      BY <1>1, CycleLaw!FoldTrace
  <2> HIDE DEF h
  <2> QED
    BY <2>1 DEF CycleLaw!IsTrace, CycleOp
<1> HIDE DEF h
<1>. DEFINE Good == {t \in 0..Horizon : Sound(h[t], t)}
<1>3. 0 \in Good
  BY <1>1, <1>2 DEF Sound
<1>4. ASSUME NEW t \in 1..Horizon, t - 1 \in Good PROVE t \in Good
  <2>1. t - 1 \in Nat /\ Sound(h[t - 1], t - 1) /\ (t - 1) + 1 = t /\ t \in 0..Horizon
    BY <1>1, <1>4
  <2>2. Sound(IssueCycle(h[t - 1], t - 1), (t - 1) + 1)
    BY <2>1, CycleIsSound
  <2> QED
    BY <1>2, <2>1, <2>2
<1>5. Horizon \in Good
  <2> HIDE DEF Good
  <2> QED
    BY <1>1, <1>3, <1>4, UpTo
<1> QED
  BY <1>2, <1>5, ScheduleFold

UnitLat(g) == Lat[FrontEnd[g].unit]

\* The table lists a result behind the ones it takes.
LEMMA RowsAre ==
  /\ \A r \in Rows : r.cycle \in 0..253 /\ r.pair \in 1..MaxPairs /\ r.tag \in Tags
  /\ \A r, q \in Rows : r.pair = q.pair /\ r.tag = q.tag => r.cycle = q.cycle
  /\ \A r \in Rows : \A d \in FrontEnd[r.tag].of :
       \E q \in Rows : q.pair = r.pair /\ q.tag = d /\ q.cycle + UnitLat(d) <= r.cycle
<1>1. MaxPairs \in Nat /\ PerPair = 26 /\ Tags = 1..20 /\ Horizon \in 1..254
  BY MaxPairsNat, FrontEndIs, ScheduleAssumption
<1>. DEFINE Row(id, t) == [cycle |-> t, pair |-> (id - 1) \div 26 + 1, tag |-> ((id - 1) % 26) + 1]
            front == {x \in Schedule : x[1] <= 26 * MaxPairs /\ LaneOf(x[1]) = NoLane}
<1>2. Rows = {Row(x[1], x[2]) : x \in front}
  BY <1>1 DEF Rows
<1>3. ASSUME NEW x \in front
      PROVE  /\ x[1] \in 1..(26 * MaxPairs) /\ x[2] \in 0..253
             /\ (x[1] - 1) \div 26 + 1 \in 1..MaxPairs /\ ((x[1] - 1) % 26) + 1 \in 1..20
             /\ x[1] = FrontId((x[1] - 1) \div 26 + 1, ((x[1] - 1) % 26) + 1)
  <2>1. x[1] \in DOMAIN BuildOps /\ x[2] \in Nat /\ x[2] < Horizon
    BY ScheduleIsSound DEF Sound
  <2>2. DOMAIN BuildOps = 1..(26 * MaxPairs + 6 * Bodies)
    BY <1>1 DEF BuildOps
  <2>4. x[1] \in Nat /\ x[1] >= 1 /\ x[1] <= 26 * MaxPairs
    BY <1>1, <2>1, <2>2
  <2>5. x[1] \in 1..(26 * MaxPairs)
    BY <1>1, <2>4
  <2>6. x[2] \in 0..253
    BY <1>1, <2>1
  <2>3. x[1] \in 1..(26 * MaxPairs) /\ x[2] \in 0..253
    BY <2>5, <2>6
  <2> QED
    BY <1>1, <2>3, FrontIdOf
<1>4. \A r \in Rows : r.cycle \in 0..253 /\ r.pair \in 1..MaxPairs /\ r.tag \in Tags
  <2> TAKE r \in Rows
  <2>1. PICK x \in front : r = Row(x[1], x[2])
    BY <1>2
  <2> QED
    BY <1>1, <1>3, <2>1
<1>5. ASSUME NEW r \in Rows, NEW q \in Rows, r.pair = q.pair, r.tag = q.tag PROVE r.cycle = q.cycle
  <2>1. PICK x \in front : r = Row(x[1], x[2])
    BY <1>2
  <2>2. PICK y \in front : q = Row(y[1], y[2])
    BY <1>2
  <2>3. x[1] = FrontId(r.pair, r.tag) /\ y[1] = FrontId(q.pair, q.tag)
    BY <1>3, <2>1, <2>2
  <2>4. x[2] = y[2]
    BY <1>5, <2>3, ScheduleIsSound DEF Sound
  <2> QED
    BY <2>1, <2>2, <2>4
<1>6. ASSUME NEW r \in Rows, NEW d \in FrontEnd[r.tag].of
      PROVE  \E q \in Rows : q.pair = r.pair /\ q.tag = d /\ q.cycle + UnitLat(d) <= r.cycle
  <2>1. PICK x \in front : r = Row(x[1], x[2])
    BY <1>2
  <2>. DEFINE k == r.pair
              g == r.tag
  <2>2. k \in 1..MaxPairs /\ g \in 1..20 /\ x[1] = FrontId(k, g) /\ r.cycle = x[2]
    BY <1>3, <2>1
  <2>3. d \in 1..20
    BY <2>2, FrontEndIs
  <2> HIDE DEF k, g
  <2>4. FrontId(k, d) \in BuildOps[x[1]].needs
    <3>1. d \in FrontEnd[g].of
      BY DEF g
    <3> QED
      BY <1>1, <2>2, <3>1, FrontNeeds
  <2>5. Finished(Schedule, x[2], FrontId(k, d))
    BY <2>4, ScheduleIsSound DEF Sound
  <2>6. PICK y \in Schedule : y[1] = FrontId(k, d) /\ y[2] + Lat[BuildOps[FrontId(k, d)].unit] <= x[2]
    BY <2>5 DEF Finished
  <2>7. /\ FrontId(k, d) \in 1..(26 * MaxPairs) /\ LaneOf(FrontId(k, d)) = NoLane
        /\ BuildOps[FrontId(k, d)].unit = FrontEnd[d].unit
        /\ (FrontId(k, d) - 1) \div 26 + 1 = k /\ ((FrontId(k, d) - 1) % 26) + 1 = d
    <3>1. MaxPairs \in Nat /\ k \in 1..MaxPairs /\ d \in 1..20
      BY <1>1, <2>2, <2>3
    <3>2. FrontId(k, d) \in 1..(26 * MaxPairs) /\ LaneOf(FrontId(k, d)) = NoLane
      BY <3>1, FrontIdIs
    <3>3. BuildOps[FrontId(k, d)].unit = FrontEnd[d].unit
      BY <3>1, FrontNeeds
    <3>4. (FrontId(k, d) - 1) \div 26 = k - 1 /\ (FrontId(k, d) - 1) % 26 = d - 1
      BY <3>1, FrontIdIs
    <3> QED
      BY <3>1, <3>2, <3>3, <3>4
  <2>8. y \in front
    BY <1>1, <2>6, <2>7
  <2>. DEFINE q == Row(y[1], y[2])
  <2>9. q \in Rows /\ q.pair = k /\ q.tag = d /\ q.cycle = y[2]
    BY <1>2, <2>6, <2>7, <2>8
  <2> QED
    BY <2>2, <2>6, <2>7, <2>9 DEF UnitLat, k
<1> QED
  BY <1>4, <1>5, <1>6

-----------------------------------------------------------------------------
(* What the front end computes for a pair, and what the accumulation makes of *)
(* it: the velocities after each update, in the order of the pairs.          *)

Squares(i, j) ==
  Dot(<<FSub(i.r[1], j.r[1]), FSub(i.r[2], j.r[2]), FSub(i.r[3], j.r[3])>>)
PairMag(i, j, t) == EmulatedMag(t, Squares(i, j))

FrontOf(i, j, t, g) ==
  CASE g \in 1..3 -> FSub(i.r[g], j.r[g])
    [] g \in 4..6 -> FMul(FSub(i.r[g - 3], j.r[g - 3]), FSub(i.r[g - 3], j.r[g - 3]))
    [] g = 7 -> FAdd(FMul(FSub(i.r[1], j.r[1]), FSub(i.r[1], j.r[1])),
                     FMul(FSub(i.r[2], j.r[2]), FSub(i.r[2], j.r[2])))
    [] g = 8 -> Squares(i, j)
    [] g = 9 -> Sqrt(Squares(i, j))
    [] g = 10 -> FMul(Squares(i, j), Sqrt(Squares(i, j)))
    [] g = 11 -> FDiv(1, FMul(Squares(i, j), Sqrt(Squares(i, j))))
    [] g = 12 -> PairMag(i, j, t)
    [] g = 13 -> FMul(i.m, PairMag(i, j, t))
    [] g = 14 -> FMul(j.m, PairMag(i, j, t))
    [] g \in 15..17 -> FMul(FSub(i.r[g - 14], j.r[g - 14]), FMul(j.m, PairMag(i, j, t)))
    [] g \in 18..20 -> FMul(FSub(i.r[g - 17], j.r[g - 17]), FMul(i.m, PairMag(i, j, t)))

LEMMA FrontOfIs ==
  \A i, j, t :
    /\ \A c \in 1..3 : /\ FrontOf(i, j, t, c) = FSub(i.r[c], j.r[c])
                       /\ FrontOf(i, j, t, 3 + c) = FMul(FrontOf(i, j, t, c), FrontOf(i, j, t, c))
                       /\ FrontOf(i, j, t, 14 + c) = FMul(FrontOf(i, j, t, c), FrontOf(i, j, t, 14))
                       /\ FrontOf(i, j, t, 17 + c) = FMul(FrontOf(i, j, t, c), FrontOf(i, j, t, 13))
    /\ FrontOf(i, j, t, 7) = FAdd(FrontOf(i, j, t, 4), FrontOf(i, j, t, 5))
    /\ FrontOf(i, j, t, 8) = FAdd(FrontOf(i, j, t, 7), FrontOf(i, j, t, 6))
    /\ FrontOf(i, j, t, 9) = Sqrt(FrontOf(i, j, t, 8))
    /\ FrontOf(i, j, t, 10) = FMul(FrontOf(i, j, t, 8), FrontOf(i, j, t, 9))
    /\ FrontOf(i, j, t, 11) = FDiv(1, FrontOf(i, j, t, 10))
    /\ FrontOf(i, j, t, 12) = FMul(t, FrontOf(i, j, t, 11))
    /\ FrontOf(i, j, t, 13) = FMul(i.m, FrontOf(i, j, t, 12))
    /\ FrontOf(i, j, t, 14) = FMul(j.m, FrontOf(i, j, t, 12))
<1> TAKE i, j, t
<1>. DEFINE F(g) == FrontOf(i, j, t, g)
<1>1. /\ F(1) = FSub(i.r[1], j.r[1]) /\ F(2) = FSub(i.r[2], j.r[2]) /\ F(3) = FSub(i.r[3], j.r[3])
  BY DEF FrontOf
<1>2. /\ F(4) = FMul(FSub(i.r[1], j.r[1]), FSub(i.r[1], j.r[1]))
      /\ F(5) = FMul(FSub(i.r[2], j.r[2]), FSub(i.r[2], j.r[2]))
      /\ F(6) = FMul(FSub(i.r[3], j.r[3]), FSub(i.r[3], j.r[3]))
  BY DEF FrontOf
<1>3. /\ F(7) = FAdd(FMul(FSub(i.r[1], j.r[1]), FSub(i.r[1], j.r[1])),
                     FMul(FSub(i.r[2], j.r[2]), FSub(i.r[2], j.r[2])))
      /\ F(8) = Squares(i, j) /\ F(9) = Sqrt(Squares(i, j))
      /\ F(10) = FMul(Squares(i, j), Sqrt(Squares(i, j)))
      /\ F(11) = FDiv(1, FMul(Squares(i, j), Sqrt(Squares(i, j))))
      /\ F(12) = PairMag(i, j, t)
      /\ F(13) = FMul(i.m, PairMag(i, j, t)) /\ F(14) = FMul(j.m, PairMag(i, j, t))
  BY DEF FrontOf
<1>4. /\ F(15) = FMul(FSub(i.r[1], j.r[1]), FMul(j.m, PairMag(i, j, t)))
      /\ F(16) = FMul(FSub(i.r[2], j.r[2]), FMul(j.m, PairMag(i, j, t)))
      /\ F(17) = FMul(FSub(i.r[3], j.r[3]), FMul(j.m, PairMag(i, j, t)))
  BY DEF FrontOf
<1>5. /\ F(18) = FMul(FSub(i.r[1], j.r[1]), FMul(i.m, PairMag(i, j, t)))
      /\ F(19) = FMul(FSub(i.r[2], j.r[2]), FMul(i.m, PairMag(i, j, t)))
      /\ F(20) = FMul(FSub(i.r[3], j.r[3]), FMul(i.m, PairMag(i, j, t)))
  BY DEF FrontOf
<1>6. F(8) = FAdd(F(7), F(6))
  BY <1>2, <1>3 DEF Squares, Dot
<1>7. F(12) = FMul(t, F(11))
  BY <1>3 DEF PairMag, EmulatedMag
<1> HIDE DEF F
<1>8. \A c \in 1..3 : /\ F(c) = FSub(i.r[c], j.r[c]) /\ F(3 + c) = FMul(F(c), F(c))
                      /\ F(14 + c) = FMul(F(c), F(14)) /\ F(17 + c) = FMul(F(c), F(13))
  <2> TAKE c \in 1..3
  <2>1. c = 1 \/ c = 2 \/ c = 3
    OBVIOUS
  <2> QED
    BY <1>1, <1>2, <1>3, <1>4, <1>5, <2>1
<1>9. /\ F(7) = FAdd(F(4), F(5)) /\ F(8) = FAdd(F(7), F(6)) /\ F(9) = Sqrt(F(8))
      /\ F(10) = FMul(F(8), F(9)) /\ F(11) = FDiv(1, F(10)) /\ F(12) = FMul(t, F(11))
      /\ F(13) = FMul(i.m, F(12)) /\ F(14) = FMul(j.m, F(12))
  BY <1>2, <1>3, <1>6, <1>7
<1> QED
  BY <1>8, <1>9 DEF F

LEMMA FrontEndOf ==
  /\ \A c \in 1..3 : /\ FrontEnd[3 + c].of = {c} /\ FrontEnd[14 + c].of = {c, 14}
                     /\ FrontEnd[17 + c].of = {c, 13}
  /\ FrontEnd[7].of = {4, 5} /\ FrontEnd[8].of = {6, 7} /\ FrontEnd[9].of = {8}
  /\ FrontEnd[10].of = {8, 9} /\ FrontEnd[11].of = {10} /\ FrontEnd[12].of = {11}
  /\ FrontEnd[13].of = {12} /\ FrontEnd[14].of = {12}
<1>1. /\ FrontEnd[4].of = {1} /\ FrontEnd[5].of = {2} /\ FrontEnd[6].of = {3}
      /\ FrontEnd[15].of = {1, 14} /\ FrontEnd[16].of = {2, 14} /\ FrontEnd[17].of = {3, 14}
      /\ FrontEnd[18].of = {1, 13} /\ FrontEnd[19].of = {2, 13} /\ FrontEnd[20].of = {3, 13}
  BY DEF FrontEnd
<1>2. /\ FrontEnd[7].of = {4, 5} /\ FrontEnd[8].of = {6, 7} /\ FrontEnd[9].of = {8}
      /\ FrontEnd[10].of = {8, 9} /\ FrontEnd[11].of = {10} /\ FrontEnd[12].of = {11}
      /\ FrontEnd[13].of = {12} /\ FrontEnd[14].of = {12}
  BY DEF FrontEnd
<1>3. \A c \in 1..3 : /\ FrontEnd[3 + c].of = {c} /\ FrontEnd[14 + c].of = {c, 14}
                      /\ FrontEnd[17 + c].of = {c, 13}
  <2> TAKE c \in 1..3
  <2>1. c = 1 \/ c = 2 \/ c = 3
    OBVIOUS
  <2> QED
    BY <1>1, <2>1
<1> QED
  BY <1>2, <1>3

\* An operation of the table whose operands are right gives the right result.
LEMMA FrontValueIs ==
  ASSUME NEW k, NEW g \in 1..20, NEW i, NEW j,
         \A m \in FrontEnd[g].of : Forwarded(k, m) = FrontOf(i, j, job.dt, m),
         g \in 1..3 => work[job.pairs[k][1]].r[g] = i.r[g] /\ work[job.pairs[k][2]].r[g] = j.r[g],
         work[job.pairs[k][1]].m = i.m, work[job.pairs[k][2]].m = j.m
  PROVE  FrontValue(k, g) = FrontOf(i, j, job.dt, g)
<1>. DEFINE F(m) == FrontOf(i, j, job.dt, m)
            s(m) == Forwarded(k, m)
            V(m) == FrontValue(k, m)
<1>1. ASSUME g \in 1..3 PROVE V(g) = F(g)
  <2>1. V(g) = FSub(work[job.pairs[k][1]].r[g], work[job.pairs[k][2]].r[g])
    BY <1>1 DEF FrontValue, Pairs
  <2>2. F(g) = FSub(i.r[g], j.r[g])
    BY <1>1, FrontOfIs
  <2>3. work[job.pairs[k][1]].r[g] = i.r[g] /\ work[job.pairs[k][2]].r[g] = j.r[g]
    BY <1>1
  <2> HIDE DEF F, V
  <2> QED
    BY <2>1, <2>2, <2>3
<1>2. ASSUME NEW c \in 1..3, g = 3 + c PROVE V(g) = F(g)
  <2>1. V(3 + c) = FMul(s(c), s(c))
    BY DEF FrontValue
  <2>2. s(c) = F(c)
    BY <1>2, FrontEndOf
  <2> HIDE DEF V, F, s
  <2>3. F(3 + c) = FMul(F(c), F(c))
    BY FrontOfIs DEF F
  <2> QED
    BY <1>2, <2>1, <2>2, <2>3
<1>3. ASSUME NEW c \in 1..3, g = 14 + c PROVE V(g) = F(g)
  <2>1. V(14 + c) = FMul(s(c), s(14))
    BY DEF FrontValue
  <2>2. s(c) = F(c) /\ s(14) = F(14)
    BY <1>3, FrontEndOf
  <2> HIDE DEF V, F, s
  <2>3. F(14 + c) = FMul(F(c), F(14))
    BY FrontOfIs DEF F
  <2> QED
    BY <1>3, <2>1, <2>2, <2>3
<1>4. ASSUME NEW c \in 1..3, g = 17 + c PROVE V(g) = F(g)
  <2>1. V(17 + c) = FMul(s(c), s(13))
    BY DEF FrontValue
  <2>2. s(c) = F(c) /\ s(13) = F(13)
    BY <1>4, FrontEndOf
  <2> HIDE DEF V, F, s
  <2>3. F(17 + c) = FMul(F(c), F(13))
    BY FrontOfIs DEF F
  <2> QED
    BY <1>4, <2>1, <2>2, <2>3
<1>5. ASSUME g \in 7..14 PROVE V(g) = F(g)
  <2>1. /\ V(7) = FAdd(s(4), s(5)) /\ V(8) = FAdd(s(7), s(6)) /\ V(9) = Sqrt(s(8))
        /\ V(10) = FMul(s(8), s(9)) /\ V(11) = FDiv(1, s(10)) /\ V(12) = FMul(job.dt, s(11))
        /\ V(13) = FMul(work[job.pairs[k][1]].m, s(12)) /\ V(14) = FMul(work[job.pairs[k][2]].m, s(12))
    BY DEF FrontValue, Pairs
  <2>2. /\ (g = 7 => s(4) = F(4) /\ s(5) = F(5)) /\ (g = 8 => s(6) = F(6) /\ s(7) = F(7))
        /\ (g = 9 => s(8) = F(8)) /\ (g = 10 => s(8) = F(8) /\ s(9) = F(9))
        /\ (g = 11 => s(10) = F(10)) /\ (g = 12 => s(11) = F(11))
        /\ (g \in {13, 14} => s(12) = F(12))
    BY FrontEndOf
  <2>3. /\ F(7) = FAdd(F(4), F(5)) /\ F(8) = FAdd(F(7), F(6)) /\ F(9) = Sqrt(F(8))
        /\ F(10) = FMul(F(8), F(9)) /\ F(11) = FDiv(1, F(10)) /\ F(12) = FMul(job.dt, F(11))
        /\ F(13) = FMul(i.m, F(12)) /\ F(14) = FMul(j.m, F(12))
    BY FrontOfIs
  <2> HIDE DEF V, F, s
  <2>4. g = 7 \/ g = 8 \/ g = 9 \/ g = 10 \/ g = 11 \/ g = 12 \/ g = 13 \/ g = 14
    BY <1>5
  <2> QED
    BY <2>1, <2>2, <2>3, <2>4
<1>6. \/ g \in 1..3 \/ g \in 7..14
      \/ \E c \in 1..3 : g = 3 + c \/ g = 14 + c \/ g = 17 + c
  <2>1. g \in 4..6 => g - 3 \in 1..3 /\ g = 3 + (g - 3)
    OBVIOUS
  <2>2. g \in 15..17 => g - 14 \in 1..3 /\ g = 14 + (g - 14)
    OBVIOUS
  <2>3. g \in 18..20 => g - 17 \in 1..3 /\ g = 17 + (g - 17)
    OBVIOUS
  <2>4. g \in 1..3 \/ g \in 4..6 \/ g \in 7..14 \/ g \in 15..17 \/ g \in 18..20
    OBVIOUS
  <2> QED
    BY <2>1, <2>2, <2>3, <2>4
<1> HIDE DEF V, F
<1>7. V(g) = F(g)
  BY <1>1, <1>2, <1>3, <1>4, <1>5, <1>6
<1> QED
  BY <1>7 DEF V, F

LEMMA FloatOps ==
  \A a, b \in Float :
    /\ FAdd(a, b) \in Float /\ FSub(a, b) \in Float /\ FMul(a, b) \in Float /\ FDiv(a, b) \in Float
    /\ Sqrt(a) \in Float
<1>1. ASSUME NEW a \in Float, NEW b \in Float
      PROVE  /\ FAdd(a, b) \in Float /\ FMul(a, b) \in Float /\ FDiv(a, b) \in Float
             /\ Sqrt(a) \in Float
  <2>1. a \in Nat /\ b \in Nat
    BY DEF Float, P
  <2>2. a * b \in Nat /\ a * a \in Nat /\ 7 * a * a \in Nat
    BY <2>1
  <2>3. (a * b) \div 7 \in Nat /\ (a + b) \div 5 \in Nat
    BY <2>1, <2>2
  <2>4. a * (3 * b + 2) \in Nat
    BY <2>1
  <2>5. \A x \in Nat : x % P \in Float
    BY DEF Float, P
  <2> QED
    BY <2>1, <2>2, <2>3, <2>4, <2>5 DEF FAdd, FMul, FDiv, Sqrt
<1>2. ASSUME NEW a \in Float, NEW b \in Float PROVE FSub(a, b) \in Float
  <2>1. (P - b) % P \in Float
    BY DEF Float, P
  <2> QED
    BY <1>1, <2>1 DEF FSub
<1> QED
  BY <1>1, <1>2

Triple(f) == <<f[1], f[2], f[3]>>

LEMMA TripleIs ==
  /\ \A f \in Vec : f = Triple(f) /\ DOMAIN f = 1..3 /\ \A c \in 1..3 : f[c] \in Float
  /\ \A f : (f = [c \in 1..3 |-> f[c]] /\ \A c \in 1..3 : f[c] \in Float) => f \in Vec
  /\ \A f, h \in Vec : (\A c \in 1..3 : f[c] = h[c]) => f = h
<1>1. ASSUME NEW f \in Vec PROVE f = Triple(f) /\ DOMAIN f = 1..3 /\ \A c \in 1..3 : f[c] \in Float
  <2>1. f = Triple(f) /\ DOMAIN f = 1..3 /\ f[1] \in Float /\ f[2] \in Float /\ f[3] \in Float
    BY DEF Vec, Triple
  <2>2. \A c \in 1..3 : c = 1 \/ c = 2 \/ c = 3
    OBVIOUS
  <2> QED
    BY <2>1, <2>2
<1>2. ASSUME NEW f, f = [c \in 1..3 |-> f[c]], \A c \in 1..3 : f[c] \in Float PROVE f \in Vec
  <2>1. \A c \in 1..3 : f[c] = Triple(f)[c]
    <3> TAKE c \in 1..3
    <3>1. c = 1 \/ c = 2 \/ c = 3
      OBVIOUS
    <3> QED
      BY <3>1 DEF Triple
  <2>2. f = Triple(f)
    BY <1>2, <2>1 DEF Triple
  <2>3. Triple(f) \in Vec
    BY <1>2 DEF Triple, Vec
  <2> QED
    BY <2>2, <2>3
<1>3. ASSUME NEW f \in Vec, NEW h \in Vec, \A c \in 1..3 : f[c] = h[c] PROVE f = h
  <2>1. Triple(f) = Triple(h)
    BY <1>3 DEF Triple
  <2> QED
    BY <1>1, <2>1
<1> QED
  BY <1>1, <1>2, <1>3

LEMMA FrontType ==
  ASSUME NEW i \in BodyState, NEW j \in BodyState, NEW t \in Float, NEW g \in 1..20
  PROVE  FrontOf(i, j, t, g) \in Float
<1>. DEFINE F(m) == FrontOf(i, j, t, m)
<1>1. i.m \in Float /\ j.m \in Float /\ \A c \in 1..3 : i.r[c] \in Float /\ j.r[c] \in Float
  BY TripleIs DEF BodyState
<1>a. \A a, b \in Float : FAdd(a, b) \in Float
  BY FloatOps
<1>b. \A a, b \in Float : FSub(a, b) \in Float
  BY FloatOps
<1>c. \A a, b \in Float : FMul(a, b) \in Float
  BY FloatOps
<1>d. \A a, b \in Float : FDiv(a, b) \in Float
  BY FloatOps
<1>2. \A c \in 1..3 : F(c) \in Float
  <2> TAKE c \in 1..3
  <2>1. F(c) = FSub(i.r[c], j.r[c])
    BY FrontOfIs
  <2> QED
    BY <1>1, <1>b, <2>1
<1>3. \A c \in 1..3 : F(3 + c) \in Float
  <2> TAKE c \in 1..3
  <2>1. F(3 + c) = FMul(F(c), F(c))
    BY FrontOfIs
  <2> HIDE DEF F
  <2> QED
    BY <1>2, <1>c, <2>1
<1>4. /\ F(4) \in Float /\ F(5) \in Float /\ F(6) \in Float /\ 1 \in Float
      /\ F(7) = FAdd(F(4), F(5)) /\ F(8) = FAdd(F(7), F(6)) /\ F(9) = Sqrt(F(8))
      /\ F(10) = FMul(F(8), F(9)) /\ F(11) = FDiv(1, F(10)) /\ F(12) = FMul(t, F(11))
      /\ F(13) = FMul(i.m, F(12)) /\ F(14) = FMul(j.m, F(12))
  <2>1. F(3 + 1) \in Float /\ F(3 + 2) \in Float /\ F(3 + 3) \in Float
    BY <1>3
  <2>2. 3 + 1 = 4 /\ 3 + 2 = 5 /\ 3 + 3 = 6 /\ 1 \in Float
    BY DEF Float, P
  <2> QED
    BY <2>1, <2>2, FrontOfIs
<1> HIDE DEF F
<1>5. F(7) \in Float
  BY <1>4, <1>a
<1>6. F(8) \in Float
  BY <1>4, <1>5, <1>a
<1>7. F(9) \in Float
  BY <1>4, <1>6, FloatOps
<1>8. F(10) \in Float
  BY <1>4, <1>6, <1>7, <1>c
<1>9. F(11) \in Float
  BY <1>4, <1>8, <1>d
<1>10. F(12) \in Float
  BY <1>4, <1>9, <1>c
<1>11. F(13) \in Float /\ F(14) \in Float
  BY <1>1, <1>4, <1>10, <1>c
<1>12. \A c \in 1..3 : F(14 + c) \in Float /\ F(17 + c) \in Float
  <2> TAKE c \in 1..3
  <2>1. F(14 + c) = FMul(F(c), F(14)) /\ F(17 + c) = FMul(F(c), F(13))
    BY FrontOfIs DEF F
  <2> QED
    BY <1>2, <1>11, <1>c, <2>1
<1>13. \/ g \in 1..3 \/ g \in 7..14
       \/ \E c \in 1..3 : g = 3 + c \/ g = 14 + c \/ g = 17 + c
  <2>1. g \in 4..6 => g - 3 \in 1..3 /\ g = 3 + (g - 3)
    OBVIOUS
  <2>2. g \in 15..17 => g - 14 \in 1..3 /\ g = 14 + (g - 14)
    OBVIOUS
  <2>3. g \in 18..20 => g - 17 \in 1..3 /\ g = 17 + (g - 17)
    OBVIOUS
  <2>4. g \in 1..3 \/ g \in 4..6 \/ g \in 7..14 \/ g \in 15..17 \/ g \in 18..20
    OBVIOUS
  <2> QED
    BY <2>1, <2>2, <2>3, <2>4
<1>14. g \in 7..14 => F(g) \in Float
  <2>1. g \in 7..14 => (g = 7 \/ g = 8 \/ g = 9 \/ g = 10 \/ g = 11 \/ g = 12 \/ g = 13 \/ g = 14)
    OBVIOUS
  <2> QED
    BY <1>5, <1>6, <1>7, <1>8, <1>9, <1>10, <1>11, <2>1
<1>15. F(g) \in Float
  BY <1>2, <1>3, <1>12, <1>13, <1>14
<1> QED
  BY <1>15 DEF F

-----------------------------------------------------------------------------
(* The accumulation in the order of the pairs: the velocities of all lanes   *)
(* after each of its operations.                                             *)

Banks == [1..Bodies -> BodyState]
PairLists == Seq((1..Bodies) \X (1..Bodies))

LaneIn(ps, e) == <<ps[PairOf(e)][IF OnFirst(e) THEN 1 ELSE 2], ((e - 1) % 3) + 1>>
ForceIn(bs, ps, t, e) ==
  FrontOf(bs[ps[PairOf(e)][1]], bs[ps[PairOf(e)][2]], t, 15 + ((e - 1) % 6))
Merge(e, v, f) == IF OnFirst(e) THEN FSub(v, f) ELSE FAdd(v, f)

AccOp(q, s, e) ==
  [l \in Lanes |-> IF l = LaneIn(q[2], e) THEN Merge(e, s[l], ForceIn(q[1], q[2], q[3], e)) ELSE s[l]]
AccLaw == INSTANCE FoldLaws WITH Op <- AccOp

Numbers(m) == [i \in 1..m |-> i]
Velocities(bs) == [l \in Lanes |-> bs[l[1]].v[l[2]]]
Target(bs, ps, t) ==
  AccLaw!Trace(<<bs, ps, t>>, Velocities(bs), Numbers(6 * Len(ps)), 6 * Len(ps))

LEMMA PairsOfOps ==
  ASSUME NEW m \in Nat, NEW e \in 1..(6 * m)
  PROVE  PairOf(e) \in 1..m /\ (e - 1) % 6 \in 0..5 /\ ((e - 1) % 3) + 1 \in 1..3
<1>1. (e - 1) \div 6 \in 0..(m - 1) /\ (e - 1) % 6 \in 0..5 /\ (e - 1) % 3 \in 0..2
  OBVIOUS
<1> QED
  BY <1>1 DEF PairOf

LEMMA LaneInIs ==
  ASSUME NEW ps \in PairLists, NEW e \in 1..(6 * Len(ps))
  PROVE  /\ PairOf(e) \in 1..Len(ps) /\ LaneIn(ps, e) \in Lanes
         /\ ps[PairOf(e)][1] \in 1..Bodies /\ ps[PairOf(e)][2] \in 1..Bodies
<1>1. Len(ps) \in Nat /\ \A k \in 1..Len(ps) : ps[k][1] \in 1..Bodies /\ ps[k][2] \in 1..Bodies
  BY DEF PairLists
<1>2. PairOf(e) \in 1..Len(ps) /\ ((e - 1) % 3) + 1 \in 1..3
  BY <1>1, PairsOfOps
<1> QED
  BY <1>1, <1>2 DEF LaneIn, Lanes

LEMMA ForceInType ==
  ASSUME NEW bs \in Banks, NEW ps \in PairLists, NEW t \in Float, NEW e \in 1..(6 * Len(ps))
  PROVE  ForceIn(bs, ps, t, e) \in Float
<1>1. Len(ps) \in Nat
  BY DEF PairLists
<1>2. ps[PairOf(e)][1] \in 1..Bodies /\ ps[PairOf(e)][2] \in 1..Bodies /\ (e - 1) % 6 \in 0..5
  BY <1>1, LaneInIs, PairsOfOps
<1>3. 15 + ((e - 1) % 6) \in 1..20
  BY <1>2
<1>4. bs[ps[PairOf(e)][1]] \in BodyState /\ bs[ps[PairOf(e)][2]] \in BodyState
  BY <1>2 DEF Banks
<1> QED
  BY <1>3, <1>4, FrontType DEF ForceIn

LEMMA TargetIs ==
  ASSUME NEW bs \in Banks, NEW ps \in PairLists, NEW t \in Float
  PROVE  /\ \A l \in Lanes : Target(bs, ps, t)[0][l] = bs[l[1]].v[l[2]]
         /\ \A e \in 1..(6 * Len(ps)), l \in Lanes :
              Target(bs, ps, t)[e][l] =
                IF l = LaneIn(ps, e) THEN Merge(e, Target(bs, ps, t)[e - 1][l], ForceIn(bs, ps, t, e))
                ELSE Target(bs, ps, t)[e - 1][l]
<1>. DEFINE m == 6 * Len(ps)
            h == Target(bs, ps, t)
<1>1. m \in Nat /\ DOMAIN Numbers(m) = 1..m /\ \A e \in 1..m : Numbers(m)[e] = e
  BY DEF PairLists, Numbers
<1>2. AccLaw!IsTrace(h, <<bs, ps, t>>, Velocities(bs), Numbers(m), m)
  <2> HIDE DEF m
  <2>1. AccLaw!IsTrace(AccLaw!Trace(<<bs, ps, t>>, Velocities(bs), Numbers(m), m), <<bs, ps, t>>, Velocities(bs), Numbers(m), m)
    BY <1>1, AccLaw!FoldTrace
  <2> QED
    BY <2>1 DEF Target, m
<1> HIDE DEF h, m
<1>3. h[0] = Velocities(bs) /\ \A e \in 1..m : h[e] = AccOp(<<bs, ps, t>>, h[e - 1], e)
  BY <1>1, <1>2 DEF AccLaw!IsTrace
<1>4. \A l \in Lanes : h[0][l] = bs[l[1]].v[l[2]]
  BY <1>3 DEF Velocities
<1>5. \A e \in 1..m, l \in Lanes :
        h[e][l] = IF l = LaneIn(ps, e) THEN Merge(e, h[e - 1][l], ForceIn(bs, ps, t, e)) ELSE h[e - 1][l]
  <2> TAKE e \in 1..m, l \in Lanes
  <2>1. h[e] = AccOp(<<bs, ps, t>>, h[e - 1], e)
    BY <1>3
  <2> QED
    BY <2>1 DEF AccOp
<1> QED
  BY <1>4, <1>5 DEF h, m

LEMMA TargetType ==
  ASSUME NEW bs \in Banks, NEW ps \in PairLists, NEW t \in Float
  PROVE  \A e \in 0..(6 * Len(ps)), l \in Lanes : Target(bs, ps, t)[e][l] \in Float
<1>. DEFINE m == 6 * Len(ps)
            h == Target(bs, ps, t)
<1>1. m \in Nat
  BY DEF PairLists
<1>2. /\ \A l \in Lanes : h[0][l] = bs[l[1]].v[l[2]]
      /\ \A e \in 1..m, l \in Lanes :
           h[e][l] = IF l = LaneIn(ps, e) THEN Merge(e, h[e - 1][l], ForceIn(bs, ps, t, e)) ELSE h[e - 1][l]
  BY TargetIs
<1> HIDE DEF h
<1>3. ASSUME NEW e \in 0..m
      PROVE  \A l \in Lanes : h[e][l] \in Float
  <2>. DEFINE Good == {i \in 0..m : \A l \in Lanes : h[i][l] \in Float}
  <2>1. 0 \in Good
    <3>1. \A l \in Lanes : bs[l[1]].v[l[2]] \in Float
      <4> TAKE l \in Lanes
      <4>1. l[1] \in 1..Bodies /\ l[2] \in 1..3
        BY DEF Lanes
      <4>2. bs[l[1]].v \in Vec
        BY <4>1 DEF Banks, BodyState
      <4> QED
        BY <4>1, <4>2, TripleIs
    <3> QED
      BY <1>1, <1>2, <3>1
  <2>2. ASSUME NEW i \in 1..m, i - 1 \in Good PROVE i \in Good
    <3>1. i \in 1..(6 * Len(ps)) /\ i \in 0..m /\ \A l \in Lanes : h[i - 1][l] \in Float
      BY <2>2
    <3>2. ForceIn(bs, ps, t, i) \in Float
      BY <3>1, ForceInType
    <3>3. \A v \in Float : Merge(i, v, ForceIn(bs, ps, t, i)) \in Float
      BY <3>2, FloatOps DEF Merge
    <3> QED
      BY <1>2, <3>1, <3>3
  <2>3. e \in Good
    <3>1. e \in Nat /\ \A i \in 1..e : i - 1 \in Good => i \in Good
      BY <1>1, <2>2
    <3> HIDE DEF Good
    <3> QED
      BY <2>1, <3>1, UpTo
  <2> QED
    BY <2>3
<1> QED
  BY <1>3 DEF h

\* Operations on other lanes leave a lane alone.
LEMMA TargetKeeps ==
  ASSUME NEW bs \in Banks, NEW ps \in PairLists, NEW t \in Float, NEW l \in Lanes,
         NEW a \in 0..(6 * Len(ps)), NEW b \in 0..(6 * Len(ps)), a <= b,
         \A e \in (a + 1)..b : LaneIn(ps, e) # l
  PROVE  Target(bs, ps, t)[b][l] = Target(bs, ps, t)[a][l]
<1>. DEFINE m == 6 * Len(ps)
            h == Target(bs, ps, t)
<1>1. m \in Nat /\ a \in Nat /\ b \in Nat /\ b - a \in Nat
  BY DEF PairLists
<1>2. \A e \in 1..m : LaneIn(ps, e) # l => h[e][l] = h[e - 1][l]
  BY TargetIs
<1> HIDE DEF h
<1>. DEFINE Good == {i \in 0..(b - a) : h[a + i][l] = h[a][l]}
<1>3. 0 \in Good
  BY <1>1
<1>4. ASSUME NEW i \in 1..(b - a), i - 1 \in Good PROVE i \in Good
  <2>1. a + i \in (a + 1)..b /\ a + i \in 1..m /\ (a + i) - 1 = a + (i - 1)
    BY <1>1
  <2>2. h[a + (i - 1)][l] = h[a][l]
    BY <1>4
  <2> QED
    BY <1>2, <2>1, <2>2
<1>5. b - a \in Good
  <2> HIDE DEF Good
  <2> QED
    BY <1>1, <1>3, <1>4, UpTo
<1>6. a + (b - a) = b
  BY <1>1
<1> QED
  BY <1>5, <1>6 DEF h

-----------------------------------------------------------------------------
(* The emulation model, and what the accumulation comes to.                  *)

\* Three operations on one body, one for each component.
Threefold(bs, ps, t, k, n, b, c) ==
  LET goal == Target(bs, ps, t)
      a == 6 * (k - 1) + 3 * (n - 1)
      f == FrontOf(bs[ps[k][1]], bs[ps[k][2]], t, 11 + 3 * n + c)
  IN  goal[a + 3][<<b, c>>] = IF b # ps[k][n] THEN goal[a][<<b, c>>]
                              ELSE IF n = 1 THEN FSub(goal[a][<<b, c>>], f)
                              ELSE FAdd(goal[a][<<b, c>>], f)

LEMMA TargetOfBody ==
  ASSUME NEW bs \in Banks, NEW ps \in PairLists, NEW t \in Float, NEW k \in 1..Len(ps),
         NEW n \in {1, 2}, NEW b \in 1..Bodies, NEW c \in 1..3
  PROVE  Threefold(bs, ps, t, k, n, b, c)
<1>. DEFINE m == 6 * Len(ps)
            a == 6 * (k - 1) + 3 * (n - 1)
            h == Target(bs, ps, t)
            l == <<b, c>>
            F(d) == FrontOf(bs[ps[k][1]], bs[ps[k][2]], t, 11 + 3 * n + d)
<1>1. /\ Len(ps) \in Nat /\ m \in Nat /\ a \in Nat /\ a + 1 \in 1..m /\ a + 2 \in 1..m /\ a + 3 \in 1..m
      /\ (a + 1) - 1 = a /\ (a + 2) - 1 = a + 1 /\ (a + 3) - 1 = a + 2
  BY DEF PairLists
<1>2. /\ a \div 6 = k - 1 /\ (a + 1) \div 6 = k - 1 /\ (a + 2) \div 6 = k - 1
      /\ a % 6 = 3 * (n - 1) /\ (a + 1) % 6 = 3 * (n - 1) + 1 /\ (a + 2) % 6 = 3 * (n - 1) + 2
      /\ a % 3 = 0 /\ (a + 1) % 3 = 1 /\ (a + 2) % 3 = 2
  <2>1. CASE n = 1
    BY <1>1, <2>1
  <2>2. CASE n = 2
    BY <1>1, <2>2
  <2> QED
    BY <2>1, <2>2
<1>3. ASSUME NEW d \in 1..3
      PROVE  /\ PairOf(a + d) = k /\ (OnFirst(a + d) <=> n = 1) /\ LaneIn(ps, a + d) = <<ps[k][n], d>>
             /\ ForceIn(bs, ps, t, a + d) = F(d)
  <2>1. (a + d) - 1 = a + (d - 1) /\ (d = 1 \/ d = 2 \/ d = 3)
    BY <1>1
  <2>2. /\ ((a + d) - 1) \div 6 = k - 1 /\ ((a + d) - 1) % 6 = 3 * (n - 1) + (d - 1)
        /\ ((a + d) - 1) % 3 = d - 1
    BY <1>1, <1>2, <2>1
  <2> HIDE DEF a
  <2>3. PairOf(a + d) = k /\ (OnFirst(a + d) <=> n = 1)
    BY <2>2 DEF PairOf, OnFirst
  <2>4. LaneIn(ps, a + d) = <<ps[k][n], d>>
    <3>1. (((a + d) - 1) % 3) + 1 = d /\ (IF OnFirst(a + d) THEN 1 ELSE 2) = n
      BY <2>2, <2>3
    <3> QED
      BY <2>3, <3>1 DEF LaneIn
  <2>5. 15 + (((a + d) - 1) % 6) = 11 + 3 * n + d
    BY <2>2
  <2>6. ForceIn(bs, ps, t, a + d) = F(d)
    BY <2>3, <2>5 DEF ForceIn
  <2> QED
    BY <2>3, <2>4, <2>6
<1>4. l \in Lanes
  BY DEF Lanes
<1>. DEFINE Act(v) == IF n = 1 THEN FSub(v, F(c)) ELSE FAdd(v, F(c))
<1>5. ASSUME NEW d \in 1..3
      PROVE  h[a + d][l] = IF b = ps[k][n] /\ d = c THEN Act(h[(a + d) - 1][l]) ELSE h[(a + d) - 1][l]
  <2>1. a + d \in 1..m
    BY <1>1
  <2>2. h[a + d][l] = IF l = LaneIn(ps, a + d) THEN Merge(a + d, h[(a + d) - 1][l], ForceIn(bs, ps, t, a + d))
                      ELSE h[(a + d) - 1][l]
    <3> HIDE DEF a, l
    <3> QED
      BY <1>4, <2>1, TargetIs
  <2>3. l = LaneIn(ps, a + d) <=> b = ps[k][n] /\ c = d
    BY <1>3
  <2>4. d = c => Merge(a + d, h[(a + d) - 1][l], ForceIn(bs, ps, t, a + d)) = Act(h[(a + d) - 1][l])
    <3> SUFFICES ASSUME d = c PROVE Merge(a + d, h[(a + d) - 1][l], ForceIn(bs, ps, t, a + d)) = Act(h[(a + d) - 1][l])
      OBVIOUS
    <3>1. ForceIn(bs, ps, t, a + d) = F(c) /\ (OnFirst(a + d) <=> n = 1)
      BY <1>3
    <3> HIDE DEF F, h, a, l
    <3> QED
      BY <3>1 DEF Merge
  <2> HIDE DEF Act, h, a, l
  <2> QED
    BY <2>2, <2>3, <2>4
<1>6. h[a + 3][l] = IF b = ps[k][n] THEN Act(h[a][l]) ELSE h[a][l]
  <2>1. /\ h[a + 1][l] = IF b = ps[k][n] /\ 1 = c THEN Act(h[(a + 1) - 1][l]) ELSE h[(a + 1) - 1][l]
        /\ h[a + 2][l] = IF b = ps[k][n] /\ 2 = c THEN Act(h[(a + 2) - 1][l]) ELSE h[(a + 2) - 1][l]
        /\ h[a + 3][l] = IF b = ps[k][n] /\ 3 = c THEN Act(h[(a + 3) - 1][l]) ELSE h[(a + 3) - 1][l]
    <3>1. 1 \in 1..3 /\ 2 \in 1..3 /\ 3 \in 1..3
      OBVIOUS
    <3> HIDE DEF Act, h, a, l
    <3> QED
      BY <1>5, <3>1
  <2>2. c = 1 \/ c = 2 \/ c = 3
    OBVIOUS
  <2> HIDE DEF Act, h, a, l
  <2> QED
    BY <1>1, <2>1, <2>2
<1> QED
  BY <1>6 DEF Threefold

PairSums(bs, ps, t, k, b, c) ==
  LET goal == Target(bs, ps, t)
      F(g) == FrontOf(bs[ps[k][1]], bs[ps[k][2]], t, g)
  IN  /\ goal[6 * (k - 1) + 3][<<b, c>>] =
           IF b # ps[k][1] THEN goal[6 * (k - 1)][<<b, c>>]
           ELSE FSub(goal[6 * (k - 1)][<<b, c>>], F(14 + c))
      /\ goal[6 * k][<<b, c>>] =
           IF b # ps[k][2] THEN goal[6 * (k - 1) + 3][<<b, c>>]
           ELSE FAdd(goal[6 * (k - 1) + 3][<<b, c>>], F(17 + c))

LEMMA TargetOfPair ==
  ASSUME NEW bs \in Banks, NEW ps \in PairLists, NEW t \in Float, NEW k \in 1..Len(ps),
         NEW b \in 1..Bodies, NEW c \in 1..3
  PROVE  PairSums(bs, ps, t, k, b, c)
<1>1. Threefold(bs, ps, t, k, 1, b, c) /\ Threefold(bs, ps, t, k, 2, b, c)
  BY TargetOfBody
<1>2. /\ 6 * (k - 1) + 3 * (1 - 1) = 6 * (k - 1) /\ (6 * (k - 1) + 3 * (1 - 1)) + 3 = 6 * (k - 1) + 3
      /\ 6 * (k - 1) + 3 * (2 - 1) = 6 * (k - 1) + 3 /\ (6 * (k - 1) + 3 * (2 - 1)) + 3 = 6 * k
      /\ 11 + 3 * 1 + c = 14 + c /\ 11 + 3 * 2 + c = 17 + c
  BY DEF PairLists
<1> QED
  BY <1>1, <1>2 DEF Threefold, PairSums

-----------------------------------------------------------------------------
Pulse(s, p, t) == Impulse(s, p, "reciprocal", t)
PulseOp(t, s, p) == Impulse(s, p, "reciprocal", t)
PulseLaw == INSTANCE FoldLaws WITH Op <- PulseOp
Pulses(bs, ps, t) == FoldLeft(LAMBDA s, p : Impulse(s, p, "reciprocal", t), bs, ps)
OneStep(bs, ps, t) == Moves(Pulses(bs, ps, t), t)
StepOp(q, s, k) == OneStep(s, q[1], q[2])
StepLaw == INSTANCE FoldLaws WITH Op <- StepOp

LEMMA PulsesFold == \A bs, ps, t : Pulses(bs, ps, t) = PulseLaw!Fold(t, bs, ps)
  BY DEF Pulses, PulseOp, PulseLaw!Fold, FoldLeft, PulseLaw!FoldLeft,
         MapThenFoldSet, PulseLaw!MapThenFoldSet, Max, PulseLaw!Max

LEMMA EmulationFold ==
  \A bs, ps, t, n : Emulation(bs, ps, t, n) = StepLaw!Fold(<<ps, t>>, bs, Numbers(n))
  BY DEF Emulation, Iterate, OneStep, Pulses, Numbers, StepOp, StepLaw!Fold, FoldLeft, StepLaw!FoldLeft,
         MapThenFoldSet, StepLaw!MapThenFoldSet, Max, StepLaw!Max

\* The model's next step is one step on what it has.
LEMMA EmulationStep ==
  /\ \A bs, ps, t : Emulation(bs, ps, t, 0) = bs
  /\ \A bs, ps, t : \A n \in Nat :
       Emulation(bs, ps, t, n + 1) = OneStep(Emulation(bs, ps, t, n), ps, t)
<1>1. ASSUME NEW bs, NEW ps, NEW t PROVE Emulation(bs, ps, t, 0) = bs
  <2>1. Numbers(0) = <<>>
    BY DEF Numbers
  <2> QED
    BY <2>1, EmulationFold, StepLaw!FoldNothing
<1>2. ASSUME NEW bs, NEW ps, NEW t, NEW n \in Nat
      PROVE  Emulation(bs, ps, t, n + 1) = OneStep(Emulation(bs, ps, t, n), ps, t)
  <2>1. Numbers(n) \in Seq(Nat) /\ Len(Numbers(n)) = n
    BY DEF Numbers
  <2>2. Numbers(n + 1) = Append(Numbers(n), n + 1)
    <3>1. Numbers(n + 1) \in Seq(Nat) /\ Len(Numbers(n + 1)) = n + 1
      BY DEF Numbers
    <3>2. Append(Numbers(n), n + 1) \in Seq(Nat) /\ Len(Append(Numbers(n), n + 1)) = n + 1
      BY <2>1
    <3>3. \A i \in 1..(n + 1) : Numbers(n + 1)[i] = Append(Numbers(n), n + 1)[i]
      <4> TAKE i \in 1..(n + 1)
      <4>1. CASE i = n + 1
        BY <2>1, <4>1 DEF Numbers
      <4>2. CASE i # n + 1
        BY <2>1, <4>2 DEF Numbers
      <4> QED
        BY <4>1, <4>2
    <3> QED
      BY <3>1, <3>2, <3>3
  <2>. DEFINE q == <<ps, t>>
              s == Numbers(n)
              base == bs
  <2>3. StepLaw!Fold(q, base, Append(s, n + 1)) = StepOp(q, StepLaw!Fold(q, base, s), n + 1)
    <3> HIDE DEF q, s
    <3> QED
      BY <2>1, StepLaw!FoldAppend DEF s
  <2>4. Emulation(bs, ps, t, n + 1) = StepOp(<<ps, t>>, Emulation(bs, ps, t, n), n + 1)
    BY <2>2, <2>3, EmulationFold
  <2> QED
    BY <2>4 DEF StepOp
<1> QED
  BY <1>1, <1>2

LEMMA FrontParts ==
  ASSUME NEW i, NEW j, NEW t, NEW c \in 1..3
  PROVE  /\ FrontOf(i, j, t, c) = FSub(i.r[c], j.r[c])
         /\ FrontOf(i, j, t, 14 + c) = FMul(FrontOf(i, j, t, c), FrontOf(i, j, t, 14))
         /\ FrontOf(i, j, t, 17 + c) = FMul(FrontOf(i, j, t, c), FrontOf(i, j, t, 13))
  BY FrontOfIs

\* A bank of given positions and velocities.
BodyWith(b, v) == [r |-> b.r, v |-> v, m |-> b.m]
Pulled(s, i, x) == [s EXCEPT ![i].v = VSub(@, x)]
Impulsed(s, i, j, x, y) == [Pulled(s, i, x) EXCEPT ![j].v = VAdd(@, y)]
PulledOn(s, i, x, b) == IF b = i THEN VSub(s[b].v, x) ELSE s[b].v
PushedOn(s, i, j, x, y, b) == IF b = j THEN VAdd(PulledOn(s, i, x, b), y) ELSE PulledOn(s, i, x, b)

IsBank(s) == s = [b \in 1..Bodies |-> BodyWith(s[b], s[b].v)]
ImpulsedBank(s, i, j, x, y) == [b \in 1..Bodies |-> BodyWith(s[b], PushedOn(s, i, j, x, y, b))]

LEMMA ImpulsedIs ==
  ASSUME NEW s, IsBank(s), NEW i \in 1..Bodies, NEW j \in 1..Bodies, NEW x, NEW y
  PROVE  Impulsed(s, i, j, x, y) = ImpulsedBank(s, i, j, x, y)
<1>. DEFINE s1 == [s EXCEPT ![i].v = VSub(@, x)]
            s2 == [s1 EXCEPT ![j].v = VAdd(@, y)]
<1>1. \A b \in 1..Bodies : s[b] = BodyWith(s[b], s[b].v)
  BY DEF IsBank
<1>2. ASSUME NEW c, NEW u, NEW v PROVE [BodyWith(c, u) EXCEPT !.v = v] = BodyWith(c, v)
  BY DEF BodyWith
<1>3. ASSUME NEW b \in 1..Bodies PROVE s1[b] = BodyWith(s[b], PulledOn(s, i, x, b))
  <2>1. CASE b = i
    <3>1. s1[b] = [s[b] EXCEPT !.v = VSub(s[b].v, x)]
      BY <2>1 DEF IsBank
    <3>2. [BodyWith(s[b], s[b].v) EXCEPT !.v = VSub(s[b].v, x)] = BodyWith(s[b], VSub(s[b].v, x))
      BY <1>2
    <3> QED
      BY <1>1, <2>1, <3>1, <3>2 DEF PulledOn
  <2>2. CASE b # i
    <3>1. s1[b] = s[b]
      BY <2>2 DEF IsBank
    <3> QED
      BY <1>1, <2>2, <3>1 DEF PulledOn
  <2> QED
    BY <2>1, <2>2
<1>4. DOMAIN s1 = 1..Bodies /\ DOMAIN s2 = 1..Bodies /\ s2 = [b \in 1..Bodies |-> s2[b]]
  BY DEF s1, s2, IsBank
<1>5. ASSUME NEW b \in 1..Bodies PROVE s2[b] = BodyWith(s[b], PushedOn(s, i, j, x, y, b))
  <2>1. s1[b] = BodyWith(s[b], PulledOn(s, i, x, b))
    BY <1>3
  <2>2. CASE b = j
    <3>1. s2[b] = [s1[b] EXCEPT !.v = VAdd(s1[b].v, y)]
      <4> HIDE DEF s1
      <4> QED
        BY <1>4, <2>2
    <3>2. s1[b].v = PulledOn(s, i, x, b)
      <4> HIDE DEF s1
      <4> QED
        BY <2>1 DEF BodyWith
    <3>3. [BodyWith(s[b], PulledOn(s, i, x, b)) EXCEPT !.v = VAdd(PulledOn(s, i, x, b), y)]
            = BodyWith(s[b], VAdd(PulledOn(s, i, x, b), y))
      BY <1>2
    <3> HIDE DEF s1, s2
    <3> QED
      BY <2>1, <2>2, <3>1, <3>2, <3>3 DEF PushedOn
  <2>3. CASE b # j
    <3>1. s2[b] = s1[b]
      <4> HIDE DEF s1
      <4> QED
        BY <1>4, <2>3
    <3> HIDE DEF s1, s2
    <3> QED
      BY <2>1, <2>3, <3>1 DEF PushedOn
  <2> QED
    BY <2>2, <2>3
<1>6. Impulsed(s, i, j, x, y) = s2
  BY DEF Impulsed, Pulled
<1> HIDE DEF s2
<1> QED
  BY <1>4, <1>5, <1>6 DEF ImpulsedBank

\* The bank with the velocities that the accumulation has after operation e.
Vel(goal, e, b) == <<goal[e][<<b, 1>>], goal[e][<<b, 2>>], goal[e][<<b, 3>>]>>
Kicked(bs, goal, e) == [b \in 1..Bodies |-> BodyWith(bs[b], Vel(goal, e, b))]

LEMMA BankIs ==
  ASSUME NEW bs \in Banks, NEW b \in 1..Bodies
  PROVE  /\ bs[b] \in BodyState /\ bs[b].r \in Vec /\ bs[b].v \in Vec /\ bs[b].m \in Float
         /\ bs[b] = BodyWith(bs[b], bs[b].v)
  BY DEF Banks, BodyState, BodyWith

LEMMA PairOfList ==
  ASSUME NEW ps \in PairLists, NEW k \in 1..Len(ps)
  PROVE  ps[k][1] \in 1..Bodies /\ ps[k][2] \in 1..Bodies
  BY DEF PairLists

LEMMA PulseIs ==
  ASSUME NEW bs \in Banks, NEW ps \in PairLists, NEW t \in Float, NEW k \in 1..Len(ps)
  PROVE  Impulse(Kicked(bs, Target(bs, ps, t), 6 * (k - 1)), ps[k], "reciprocal", t)
           = Kicked(bs, Target(bs, ps, t), 6 * k)
<1>. DEFINE goal == Target(bs, ps, t)
            s == Kicked(bs, goal, 6 * (k - 1))
            i == ps[k][1]
            j == ps[k][2]
            F(g) == FrontOf(bs[i], bs[j], t, g)
            d == VSub(bs[i].r, bs[j].r)
            mag == Mag("reciprocal", t, Dot(d))
            x == VMul(d, FMul(bs[j].m, mag))
            y == VMul(d, FMul(bs[i].m, mag))
<1>1. i \in 1..Bodies /\ j \in 1..Bodies
  BY PairOfList
<1>2. Impulse(s, ps[k], "reciprocal", t) = Impulsed(s, i, j, x, y)
  <2>1. s[i].r = bs[i].r /\ s[j].r = bs[j].r /\ s[i].m = bs[i].m /\ s[j].m = bs[j].m
    BY <1>1 DEF Kicked, BodyWith
  <2> HIDE DEF s
  <2> QED
    BY <2>1 DEF Impulse, Impulsed, Pulled
<1>3. mag = PairMag(bs[i], bs[j], t)
  BY DEF Mag, PairMag, Squares, VSub
<1>4. ASSUME NEW c \in 1..3 PROVE x[c] = F(14 + c) /\ y[c] = F(17 + c)
  <2>1. x[c] = FMul(d[c], FMul(bs[j].m, mag)) /\ y[c] = FMul(d[c], FMul(bs[i].m, mag))
    <3>1. c = 1 \/ c = 2 \/ c = 3
      OBVIOUS
    <3> HIDE DEF d, mag
    <3> QED
      BY <3>1 DEF VMul
  <2>2. d[c] = F(c)
    <3>1. c = 1 \/ c = 2 \/ c = 3
      OBVIOUS
    <3>2. d[c] = FSub(bs[i].r[c], bs[j].r[c])
      BY <3>1 DEF VSub
    <3> QED
      <4>1. F(c) = FSub(bs[i].r[c], bs[j].r[c])
        BY FrontParts
      <4> HIDE DEF d, F
      <4> QED
        BY <3>2, <4>1
  <2>3. FMul(bs[j].m, mag) = F(14) /\ FMul(bs[i].m, mag) = F(13)
    BY <1>3 DEF FrontOf
  <2>4. F(14 + c) = FMul(F(c), F(14)) /\ F(17 + c) = FMul(F(c), F(13))
    BY FrontParts
  <2> HIDE DEF d, mag, F, x, y
  <2> QED
    BY <2>1, <2>2, <2>3, <2>4
<1> HIDE DEF x, y, F
<1>5. IsBank(s)
  BY DEF IsBank, Kicked, BodyWith
<1>6. Impulsed(s, i, j, x, y) = ImpulsedBank(s, i, j, x, y)
  <2> HIDE DEF s, i, j
  <2> QED
    BY <1>1, <1>5, ImpulsedIs
<1>7. ASSUME NEW b \in 1..Bodies
      PROVE  BodyWith(s[b], PushedOn(s, i, j, x, y, b)) = BodyWith(bs[b], Vel(goal, 6 * k, b))
  <2>1. s[b].r = bs[b].r /\ s[b].m = bs[b].m /\ s[b].v = Vel(goal, 6 * (k - 1), b)
    BY DEF Kicked, BodyWith
  <2>2. \A c \in 1..3 :
          /\ goal[6 * (k - 1) + 3][<<b, c>>] = IF b # i THEN goal[6 * (k - 1)][<<b, c>>]
                                               ELSE FSub(goal[6 * (k - 1)][<<b, c>>], F(14 + c))
          /\ goal[6 * k][<<b, c>>] = IF b # j THEN goal[6 * (k - 1) + 3][<<b, c>>]
                                     ELSE FAdd(goal[6 * (k - 1) + 3][<<b, c>>], F(17 + c))
    <3> TAKE c \in 1..3
    <3>1. PairSums(bs, ps, t, k, b, c)
      BY TargetOfPair
    <3> QED
      BY <3>1 DEF PairSums, F
  <2>5. /\ 1 \in 1..3 /\ 2 \in 1..3 /\ 3 \in 1..3
        /\ x[1] = F(14 + 1) /\ x[2] = F(14 + 2) /\ x[3] = F(14 + 3)
        /\ y[1] = F(17 + 1) /\ y[2] = F(17 + 2) /\ y[3] = F(17 + 3)
    BY <1>4
  <2> HIDE DEF s, goal, i, j
  <2>6. PulledOn(s, i, x, b) = Vel(goal, 6 * (k - 1) + 3, b)
    <3>1. CASE b = i
      <4>1. \A c \in 1..3 : goal[6 * (k - 1) + 3][<<b, c>>] = FSub(goal[6 * (k - 1)][<<b, c>>], F(14 + c))
        BY <2>2, <3>1
      <4>2. VSub(Vel(goal, 6 * (k - 1), b), x) = Vel(goal, 6 * (k - 1) + 3, b)
        BY <2>5, <4>1 DEF VSub, Vel
      <4> QED
        BY <2>1, <3>1, <4>2 DEF PulledOn
    <3>2. CASE b # i
      <4>1. \A c \in 1..3 : goal[6 * (k - 1) + 3][<<b, c>>] = goal[6 * (k - 1)][<<b, c>>]
        BY <2>2, <3>2
      <4>2. Vel(goal, 6 * (k - 1), b) = Vel(goal, 6 * (k - 1) + 3, b)
        BY <2>5, <4>1 DEF Vel
      <4> QED
        BY <2>1, <3>2, <4>2 DEF PulledOn
    <3> QED
      BY <3>1, <3>2
  <2>7. PushedOn(s, i, j, x, y, b) = Vel(goal, 6 * k, b)
    <3>1. CASE b = j
      <4>1. \A c \in 1..3 : goal[6 * k][<<b, c>>] = FAdd(goal[6 * (k - 1) + 3][<<b, c>>], F(17 + c))
        BY <2>2, <3>1
      <4>2. VAdd(Vel(goal, 6 * (k - 1) + 3, b), y) = Vel(goal, 6 * k, b)
        BY <2>5, <4>1 DEF VAdd, Vel
      <4> QED
        BY <2>6, <3>1, <4>2 DEF PushedOn
    <3>2. CASE b # j
      <4>1. \A c \in 1..3 : goal[6 * k][<<b, c>>] = goal[6 * (k - 1) + 3][<<b, c>>]
        BY <2>2, <3>2
      <4>2. Vel(goal, 6 * (k - 1) + 3, b) = Vel(goal, 6 * k, b)
        BY <2>5, <4>1 DEF Vel
      <4> QED
        BY <2>6, <3>2, <4>2 DEF PushedOn
    <3> QED
      BY <3>1, <3>2
  <2> QED
    BY <2>1, <2>7 DEF BodyWith
<1> HIDE DEF s, goal, i, j
<1>8. Impulsed(s, i, j, x, y) = Kicked(bs, goal, 6 * k)
  BY <1>6, <1>7 DEF Kicked, ImpulsedBank
<1> QED
  BY <1>2, <1>8 DEF s, goal

LEMMA PulsesAre ==
  ASSUME NEW bs \in Banks, NEW ps \in PairLists, NEW t \in Float
  PROVE  Pulses(bs, ps, t) = Kicked(bs, Target(bs, ps, t), 6 * Len(ps))
<1>. DEFINE m == Len(ps)
            goal == Target(bs, ps, t)
            h == PulseLaw!Trace(t, bs, ps, m)
<1>1. m \in Nat /\ DOMAIN ps = 1..m
  BY DEF PairLists
<1>2. /\ h[0] = bs /\ h[m] = PulseLaw!Fold(t, bs, ps)
      /\ \A k \in 1..m : h[k] = Impulse(h[k - 1], ps[k], "reciprocal", t)
  <2>1. PulseLaw!IsTrace(h, t, bs, ps, m)
    <3> HIDE DEF m
    <3> QED
      BY <1>1, PulseLaw!FoldTrace
  <2> HIDE DEF h
  <2> QED
    BY <2>1 DEF PulseLaw!IsTrace, PulseOp
<1> HIDE DEF h
<1>. DEFINE Good == {k \in 0..m : h[k] = Kicked(bs, goal, 6 * k)}
<1>3. 0 \in Good
  <2>1. ASSUME NEW b \in 1..Bodies PROVE bs[b] = BodyWith(bs[b], Vel(goal, 0, b))
    <3>1. bs[b].v \in Vec /\ bs[b] = BodyWith(bs[b], bs[b].v)
      BY BankIs
    <3>2. bs[b].v = <<bs[b].v[1], bs[b].v[2], bs[b].v[3]>>
      BY <3>1, TripleIs DEF Triple
    <3>3. goal[0][<<b, 1>>] = bs[b].v[1] /\ goal[0][<<b, 2>>] = bs[b].v[2] /\ goal[0][<<b, 3>>] = bs[b].v[3]
      <4>1. \A l \in Lanes : goal[0][l] = bs[l[1]].v[l[2]]
        BY TargetIs
      <4>2. <<b, 1>> \in Lanes /\ <<b, 2>> \in Lanes /\ <<b, 3>> \in Lanes
        BY DEF Lanes
      <4> HIDE DEF goal
      <4> QED
        BY <4>1, <4>2
    <3> HIDE DEF goal
    <3> QED
      BY <3>1, <3>2, <3>3 DEF Vel
  <2>2. bs = [b \in 1..Bodies |-> bs[b]]
    BY DEF Banks
  <2> HIDE DEF goal
  <2>3. bs = Kicked(bs, goal, 0)
    BY <2>1, <2>2 DEF Kicked
  <2>4. 6 * 0 = 0 /\ 0 \in 0..m
    BY <1>1
  <2> QED
    BY <1>2, <2>3, <2>4
<1>4. ASSUME NEW k \in 1..m, k - 1 \in Good PROVE k \in Good
  <2>1. k \in 1..Len(ps) /\ k \in 0..m /\ h[k - 1] = Kicked(bs, goal, 6 * (k - 1))
    BY <1>4
  <2>2. Impulse(Kicked(bs, goal, 6 * (k - 1)), ps[k], "reciprocal", t) = Kicked(bs, goal, 6 * k)
    BY <2>1, PulseIs
  <2> HIDE DEF goal
  <2> QED
    BY <1>2, <2>1, <2>2
<1>5. m \in Good
  <2> HIDE DEF Good
  <2> QED
    BY <1>1, <1>3, <1>4, UpTo
<1> HIDE DEF goal
<1> QED
  BY <1>2, <1>5, PulsesFold DEF goal

\* A step of the emulation model in terms of the accumulation: every lane moves
\* by dt times what its updates come to.
LEMMA OneStepIs ==
  ASSUME NEW bs \in Banks, NEW ps \in PairLists, NEW t \in Float, NEW new, new = OneStep(bs, ps, t),
         NEW goal, goal = Target(bs, ps, t)[6 * Len(ps)]
  PROVE  /\ new \in Banks
         /\ \A b \in 1..Bodies :
              /\ new[b].m = bs[b].m
              /\ \A c \in 1..3 : /\ new[b].v[c] = goal[<<b, c>>]
                                 /\ new[b].r[c] = FAdd(bs[b].r[c], FMul(t, goal[<<b, c>>]))
<1>. DEFINE m == 6 * Len(ps)
            all == Target(bs, ps, t)
            s == Kicked(bs, all, m)
<1>1. Bodies \in Nat /\ m \in 0..m
  BY ScheduleAssumption DEF PairLists
<1>2. new = Moves(s, t)
  BY PulsesAre DEF OneStep
<1>. DEFINE U == {s[b] : b \in 1..Bodies}
<1>3. s \in Seq(U) /\ Len(s) = Bodies
  <2>1. s = [b \in 1..Bodies |-> s[b]]
    BY DEF Kicked
  <2> HIDE DEF s
  <2>2. s \in [1..Bodies -> U]
    BY <2>1
  <2> HIDE DEF U
  <2> QED
    BY <1>1, <2>2
<1>4. new = [b \in 1..Bodies |-> [s[b] EXCEPT !.r = VAdd(s[b].r, VScale(t, s[b].v))]]
  <2> HIDE DEF s
  <2> QED
    BY <1>2, <1>3 DEF Moves
<1>5. ASSUME NEW b \in 1..Bodies
      PROVE  new[b] = [r |-> VAdd(bs[b].r, VScale(t, Vel(all, m, b))), v |-> Vel(all, m, b), m |-> bs[b].m]
  <2>1. s[b] = [r |-> bs[b].r, v |-> Vel(all, m, b), m |-> bs[b].m]
    BY DEF Kicked, BodyWith
  <2>2. new[b] = [s[b] EXCEPT !.r = VAdd(s[b].r, VScale(t, s[b].v))]
    <3> HIDE DEF s
    <3> QED
      BY <1>4
  <2> HIDE DEF s, all, m
  <2> QED
    BY <2>1, <2>2
<1>6. ASSUME NEW b \in 1..Bodies
      PROVE  Vel(all, m, b) \in Vec /\ \A c \in 1..3 : Vel(all, m, b)[c] = goal[<<b, c>>]
  <2>1. all[m] = goal
    OBVIOUS
  <2>2. \A c \in 1..3 : <<b, c>> \in Lanes
    BY DEF Lanes
  <2>3. \A c \in 1..3 : all[m][<<b, c>>] \in Float
    BY <1>1, <2>2, TargetType
  <2> HIDE DEF all, m
  <2>4. Vel(all, m, b) = <<goal[<<b, 1>>], goal[<<b, 2>>], goal[<<b, 3>>]>>
    BY <2>1 DEF Vel
  <2>5. \A c \in 1..3 : c = 1 \/ c = 2 \/ c = 3
    OBVIOUS
  <2>6. \A c \in 1..3 : Vel(all, m, b)[c] = goal[<<b, c>>]
    BY <2>4, <2>5
  <2>7. goal[<<b, 1>>] \in Float /\ goal[<<b, 2>>] \in Float /\ goal[<<b, 3>>] \in Float
    BY <2>1, <2>3
  <2> QED
    BY <2>4, <2>6, <2>7 DEF Vec
<1> HIDE DEF s, all, m
<1>7. ASSUME NEW b \in 1..Bodies
      PROVE  /\ VAdd(bs[b].r, VScale(t, Vel(all, m, b))) \in Vec
             /\ \A c \in 1..3 : VAdd(bs[b].r, VScale(t, Vel(all, m, b)))[c] = FAdd(bs[b].r[c], FMul(t, goal[<<b, c>>]))
  <2>. DEFINE v == Vel(all, m, b)
              w == VAdd(bs[b].r, VScale(t, v))
  <2>1. \A c \in 1..3 : v[c] = goal[<<b, c>>]
    BY <1>6
  <2>2. v[1] \in Float /\ v[2] \in Float /\ v[3] \in Float
    <3>1. v \in Vec
      BY <1>6
    <3>2. \A c \in 1..3 : v[c] \in Float
      BY <3>1, TripleIs
    <3> HIDE DEF v
    <3> QED
      BY <3>2
  <2>3. bs[b].r[1] \in Float /\ bs[b].r[2] \in Float /\ bs[b].r[3] \in Float
    BY BankIs, TripleIs
  <2> HIDE DEF v
  <2>4. w = <<FAdd(bs[b].r[1], FMul(t, v[1])), FAdd(bs[b].r[2], FMul(t, v[2])), FAdd(bs[b].r[3], FMul(t, v[3]))>>
    BY DEF VAdd, VScale
  <2>5. \A x \in Float : FMul(t, x) \in Float
    BY FloatOps
  <2>6. \A x, y \in Float : FAdd(x, y) \in Float
    BY FloatOps
  <2>7. \A c \in 1..3 : c = 1 \/ c = 2 \/ c = 3
    OBVIOUS
  <2> HIDE DEF w
  <2>8. w \in Vec
    BY <2>2, <2>3, <2>4, <2>5, <2>6 DEF Vec
  <2>9. \A c \in 1..3 : w[c] = FAdd(bs[b].r[c], FMul(t, goal[<<b, c>>]))
    BY <2>1, <2>4, <2>7
  <2> QED
    BY <2>8, <2>9 DEF w, v
<1>r. \A x, y, z : /\ [r |-> x, v |-> y, m |-> z].r = x /\ [r |-> x, v |-> y, m |-> z].v = y
                   /\ [r |-> x, v |-> y, m |-> z].m = z
                   /\ x \in Vec /\ y \in Vec /\ z \in Float => [r |-> x, v |-> y, m |-> z] \in BodyState
  BY DEF BodyState
<1>8. ASSUME NEW b \in 1..Bodies PROVE new[b] \in BodyState
  <2>. DEFINE x == VAdd(bs[b].r, VScale(t, Vel(all, m, b)))
              y == Vel(all, m, b)
              z == bs[b].m
  <2>1. x \in Vec /\ y \in Vec /\ z \in Float
    BY <1>6, <1>7, BankIs
  <2>2. new[b] = [r |-> x, v |-> y, m |-> z]
    BY <1>5
  <2> HIDE DEF x, y, z
  <2> QED
    BY <1>r, <2>1, <2>2
<1>9. new = [b \in 1..Bodies |-> new[b]]
  BY <1>4
<1>10. new \in Banks
  BY <1>8, <1>9 DEF Banks
<1>11. ASSUME NEW b \in 1..Bodies
       PROVE  /\ new[b].m = bs[b].m
              /\ \A c \in 1..3 : /\ new[b].v[c] = goal[<<b, c>>]
                                 /\ new[b].r[c] = FAdd(bs[b].r[c], FMul(t, goal[<<b, c>>]))
  <2>1. new[b].m = bs[b].m /\ new[b].v = Vel(all, m, b) /\ new[b].r = VAdd(bs[b].r, VScale(t, Vel(all, m, b)))
    <3>. DEFINE x == VAdd(bs[b].r, VScale(t, Vel(all, m, b)))
                y == Vel(all, m, b)
                z == bs[b].m
    <3>1. new[b] = [r |-> x, v |-> y, m |-> z]
      BY <1>5
    <3> HIDE DEF x, y, z
    <3>2. new[b].r = x /\ new[b].v = y /\ new[b].m = z
      BY <1>r, <3>1
    <3> QED
      BY <3>2 DEF x, y, z
  <2> QED
    BY <1>6, <1>7, <2>1
<1> QED
  BY <1>10, <1>11

-----------------------------------------------------------------------------
(* A step in the clock.                                                      *)

Ctx == job \in Jobs /\ committed \in Banks
Goal == Target(committed, Pairs, job.dt)
AllOps == 6 * Len(Pairs)

\* What the front end computes for pair k, from the bodies of the step.
Right(k, g) == FrontOf(committed[Pairs[k][1]], committed[Pairs[k][2]], job.dt, g)
\* The operations issued on a lane are those up to e.
UptoIn(S, l, e) == \A f \in AccOps : AccLane(f) = l => (f \in S <=> f <= e)
Upto(l, e) == UptoIn(issued, l, e)
\* dt times the velocity behind all updates, and the position it leads to.
Drifted(l) == FMul(job.dt, Goal[AllOps][l])
MovedTo(l) == FAdd(committed[l[1]].r[l[2]], Drifted(l))

WorkShape ==
  /\ work = [b \in 1..Bodies |-> [r |-> work[b].r, v |-> work[b].v, m |-> committed[b].m]]
  /\ \A b \in 1..Bodies : work[b].r = [c \in 1..3 |-> work[b].r[c]] /\ work[b].v = [c \in 1..3 |-> work[b].v[c]]
PipeSane ==
  /\ cyc \in 0..Parked
  /\ \A p \in pipe : p.due \in Nat /\ p.due >= cyc
FrontSane ==
  \A p \in pipe : p.what = "front" =>
    \E r \in Rows : /\ r.pair <= Len(Pairs) /\ p.at = <<r.pair, r.tag>>
                    /\ p.due = r.cycle + UnitLat(r.tag) /\ p.value = Right(r.pair, r.tag)
InFlight(r) ==
  \E p \in pipe : p.what = "front" /\ p.at = <<r.pair, r.tag>> /\ p.due = r.cycle + UnitLat(r.tag)
FrontFlow ==
  cyc < Parked => \A r \in Rows : r.pair <= Len(Pairs) /\ r.cycle < cyc =>
    IF cyc <= r.cycle + UnitLat(r.tag) THEN InFlight(r)
    ELSE scratch[r.pair][r.tag] = Right(r.pair, r.tag)
Captures ==
  \A k \in 1..MaxPairs : \A g \in captured[k] :
    /\ k <= Len(Pairs) /\ scratch[k][g] = Right(k, g)
    /\ \E r \in Rows : r.pair = k /\ r.tag = g /\ r.cycle + UnitLat(g) <= cyc
InOrder ==
  /\ issued \subseteq AccOps
  /\ \A e \in issued : ForceReady(PairOf(e))
  /\ \A e \in issued, f \in AccOps : f < e /\ AccLane(f) = AccLane(e) => f \in issued
AccFlow ==
  /\ \A p \in pipe : p.what = "acc" => p.at \in Lanes /\ p.at \in busy
  /\ \A p \in pipe : p.what = "acc" => \A e \in 0..AllOps : Upto(p.at, e) => p.value = Goal[e][p.at]
  /\ \A p, q \in pipe : p.what = "acc" /\ q.what = "acc" /\ p.at = q.at => p.due = q.due
  /\ \A l \in Lanes \ busy, e \in 0..AllOps : Upto(l, e) => work[l[1]].v[l[2]] = Goal[e][l]
MulFlow ==
  /\ mulIssued \subseteq Lanes /\ \A l \in mulIssued : l \notin LanePending /\ l \notin busy
  /\ \A p \in pipe : p.what = "mul" => p.at \in mulIssued /\ p.value = Drifted(p.at)
  /\ \A l \in Lanes : product[l] # <<>> => l \in mulIssued /\ product[l] = <<Drifted(l)>>
AddFlow ==
  /\ addIssued \subseteq mulIssued
  /\ \A p \in pipe : p.what = "add" => p.at \in addIssued /\ p.value = MovedTo(p.at)
  /\ \A l \in Lanes \ addIssued : work[l[1]].r[l[2]] = committed[l[1]].r[l[2]]
  /\ \A l \in addIssued : (\A p \in pipe : p.what = "add" => p.at # l) => work[l[1]].r[l[2]] = MovedTo(l)
Behind(S) == {p \in S : p.what # "front"}
Counted ==
  /\ retired \in Nat /\ IsFiniteSet(Behind(pipe))
  /\ retired + Cardinality(Behind(pipe)) <= Cardinality(issued) + Cardinality(mulIssued) + Cardinality(addIssued)

StepInv ==
  /\ WorkShape /\ PipeSane /\ FrontSane /\ FrontFlow /\ Captures
  /\ InOrder /\ AccFlow /\ MulFlow /\ AddFlow /\ Counted

-----------------------------------------------------------------------------
LEMMA CtxIs ==
  ASSUME Ctx
  PROVE  /\ Pairs \in PairLists /\ job.dt \in Float /\ committed \in Banks
         /\ MaxPairs \in Nat /\ Len(Pairs) \in Nat /\ Len(Pairs) <= MaxPairs /\ AllOps \in Nat
  BY MaxPairsNat, JobsAssumption DEF Ctx, Pairs, PairLists, AllOps

LEMMA LatIs == \A g \in Tags : UnitLat(g) \in Nat \ {0}
  BY FrontEndIs, ScheduleAssumption DEF UnitLat

LEMMA RowIs ==
  ASSUME NEW r \in Rows
  PROVE  /\ r.cycle \in Nat /\ r.cycle <= 253 /\ r.pair \in 1..MaxPairs /\ r.tag \in Tags
         /\ UnitLat(r.tag) \in Nat \ {0}
  BY RowsAre, LatIs

LEMMA EventIs ==
  ASSUME NEW r \in Events
  PROVE  r \in Rows /\ r.cycle = cyc /\ r.pair \in 1..MaxPairs /\ r.tag \in Tags /\ cyc \in 0..253
  BY RowsAre DEF Events

LEMMA AccLaneIs ==
  ASSUME Ctx, NEW e \in AccOps
  PROVE  AccLane(e) \in Lanes /\ PairOf(e) \in 1..Len(Pairs) /\ AccLane(e) = LaneIn(Pairs, e)
<1>1. Pairs \in PairLists
  BY CtxIs
<1>2. e \in 1..(6 * Len(Pairs))
  BY DEF AccOps
<1>3. AccLane(e) = LaneIn(Pairs, e)
  BY DEF AccLane, LaneIn
<1> QED
  BY <1>1, <1>2, <1>3, LaneInIs

\* The operation that updates component c of a body of pair k.
LEMMA OpOf ==
  ASSUME Ctx, NEW k \in 1..Len(Pairs), NEW n \in {1, 2}, NEW c \in 1..3
  PROVE  \E e \in AccOps : AccLane(e) = <<Pairs[k][n], c>> /\ PairOf(e) = k
<1>. DEFINE e == 6 * (k - 1) + 3 * (n - 1) + c
<1>1. Len(Pairs) \in Nat /\ k \in Nat
  BY CtxIs
<1>2. e \in 1..(6 * Len(Pairs))
  BY <1>1
<1>3. (e - 1) \div 6 = k - 1 /\ (e - 1) % 6 = 3 * (n - 1) + c - 1 /\ (e - 1) % 3 = c - 1
  <2>1. CASE n = 1
    BY <1>1, <2>1
  <2>2. CASE n = 2
    BY <1>1, <2>2
  <2> QED
    BY <2>1, <2>2
<1> HIDE DEF e
<1>4. PairOf(e) = k /\ (OnFirst(e) <=> n = 1)
  BY <1>1, <1>3 DEF PairOf, OnFirst
<1>5. AccLane(e) = <<Pairs[k][n], c>>
  <2>1. ((e - 1) % 3) + 1 = c /\ (IF OnFirst(e) THEN 1 ELSE 2) = n
    BY <1>3, <1>4
  <2> QED
    BY <1>4, <2>1 DEF AccLane
<1> QED
  BY <1>2, <1>4, <1>5 DEF AccOps

-----------------------------------------------------------------------------
(* The front end.                                                            *)

LEMMA FrontArrives ==
  ASSUME FrontSane, NEW k, NEW g, NEW p \in pipe, p.what = "front", p.at = <<k, g>>
  PROVE  p.value = Right(k, g)
  BY DEF FrontSane

LEMMA OperandIs ==
  ASSUME PipeSane, FrontSane, FrontFlow, NEW r \in Events, r.pair <= Len(Pairs), NEW d \in FrontEnd[r.tag].of
  PROVE  Forwarded(r.pair, d) = Right(r.pair, d)
<1>. DEFINE now == {p \in Retiring : p.what = "front" /\ p.at = <<r.pair, d>>}
<1>1. r \in Rows /\ r.cycle = cyc /\ r.tag \in Tags /\ cyc \in 0..253
  BY EventIs
<1>2. PICK q \in Rows : q.pair = r.pair /\ q.tag = d /\ q.cycle + UnitLat(d) <= r.cycle
  BY <1>1, RowsAre
<1>3. q.cycle \in Nat /\ UnitLat(d) \in Nat \ {0} /\ q.cycle < cyc /\ cyc < Parked
  <2>1. q.cycle \in Nat /\ UnitLat(q.tag) \in Nat \ {0}
    BY RowIs
  <2> QED
    BY <1>1, <1>2, <2>1 DEF Parked
<1>4. now = {} => scratch[r.pair][d] = Right(r.pair, d)
  <2>1. SUFFICES ASSUME now = {} PROVE scratch[r.pair][d] = Right(r.pair, d)
    OBVIOUS
  <2>2. CASE cyc <= q.cycle + UnitLat(d)
    <3>1. InFlight(q)
      BY <1>2, <1>3, <2>2 DEF FrontFlow
    <3>2. PICK p \in pipe : p.what = "front" /\ p.at = <<r.pair, d>> /\ p.due = q.cycle + UnitLat(d)
      BY <1>2, <3>1 DEF InFlight
    <3>3. p.due = cyc
      BY <1>1, <1>2, <1>3, <2>2, <3>2
    <3> QED
      BY <2>1, <3>2, <3>3 DEF Retiring
  <2>3. CASE ~ (cyc <= q.cycle + UnitLat(d))
    BY <1>2, <1>3, <2>3 DEF FrontFlow
  <2> QED
    BY <2>2, <2>3
<1>5. now # {} => (CHOOSE p \in now : TRUE).value = Right(r.pair, d)
  <2>1. SUFFICES ASSUME now # {} PROVE (CHOOSE p \in now : TRUE).value = Right(r.pair, d)
    OBVIOUS
  <2>2. (CHOOSE p \in now : TRUE) \in now
    BY <2>1
  <2>. DEFINE p == CHOOSE p \in now : TRUE
  <2>3. p \in pipe /\ p.what = "front" /\ p.at = <<r.pair, d>>
    BY <2>2 DEF Retiring
  <2> HIDE DEF p, now
  <2>4. p.value = Right(r.pair, d)
    BY <2>3, FrontArrives
  <2> QED
    BY <2>4 DEF p
<1> QED
  BY <1>4, <1>5 DEF Forwarded

\* No body has moved while the table still reads positions.
LEMMA PositionIs ==
  ASSUME Ctx, PipeSane, Captures, InOrder, MulFlow, AddFlow,
         NEW r \in Events, r.pair <= Len(Pairs), r.tag \in 1..3, NEW n \in {1, 2}
  PROVE  work[Pairs[r.pair][n]].r[r.tag] = committed[Pairs[r.pair][n]].r[r.tag]
<1>. DEFINE k == r.pair
            g == r.tag
            l == <<Pairs[k][n], g>>
<1>1. r \in Rows /\ r.cycle = cyc /\ cyc \in 0..253 /\ k \in 1..Len(Pairs)
  BY EventIs, CtxIs
<1>2. l \in Lanes
  <2>1. Pairs[k][1] \in 1..Bodies /\ Pairs[k][2] \in 1..Bodies
    <3> HIDE DEF k
    <3> QED
      BY <1>1, CtxIs, PairOfList
  <2> QED
    BY <2>1 DEF Lanes
<1>3. ASSUME l \in addIssued PROVE FALSE
  <2>1. l \notin LanePending
    BY <1>3 DEF AddFlow, MulFlow
  <2>2. PICK e \in AccOps : AccLane(e) = l /\ PairOf(e) = k
    <3> HIDE DEF k, g
    <3>1. g \in 1..3
      BY DEF g
    <3> QED
      BY <1>1, <3>1, OpOf
  <2>3. e \in issued
    BY <2>1, <2>2 DEF LanePending, Unissued
  <2>4. ForceReady(k)
    BY <2>2, <2>3 DEF InOrder
  <2>5. 14 + g \in captured[k]
    <3>1. 14 + g \in 15..20
      OBVIOUS
    <3> QED
      BY <2>4, <3>1 DEF ForceReady
  <2>6. k \in 1..MaxPairs
    BY <1>1, CtxIs
  <2>7. PICK q \in Rows : q.pair = k /\ q.tag = 14 + g /\ q.cycle + UnitLat(14 + g) <= cyc
    <3> HIDE DEF k, g
    <3> QED
      BY <2>5, <2>6 DEF Captures
  <2>8. g \in FrontEnd[q.tag].of
    BY <2>7, FrontEndOf
  <2>9. PICK s \in Rows : s.pair = k /\ s.tag = g /\ s.cycle + UnitLat(g) <= q.cycle
    <3> HIDE DEF k, g
    <3> QED
      BY <2>7, <2>8, RowsAre
  <2>10. s.cycle = r.cycle
    <3>1. s.pair = r.pair /\ s.tag = r.tag
      BY <2>9
    <3> QED
      BY <1>1, <3>1, RowsAre
  <2>11. UnitLat(g) \in Nat \ {0} /\ UnitLat(14 + g) \in Nat \ {0} /\ q.cycle \in Nat
    <3>1. q.cycle \in Nat /\ UnitLat(q.tag) \in Nat \ {0} /\ UnitLat(s.tag) \in Nat \ {0}
      BY RowIs
    <3> QED
      BY <2>7, <2>9, <3>1
  <2> HIDE DEF g, k
  <2> QED
    BY <1>1, <2>7, <2>9, <2>10, <2>11
<1>4. l \in Lanes \ addIssued
  BY <1>2, <1>3
<1>5. l[1] = Pairs[r.pair][n] /\ l[2] = r.tag
  OBVIOUS
<1> HIDE DEF l, k, g
<1>6. work[l[1]].r[l[2]] = committed[l[1]].r[l[2]]
  BY <1>4 DEF AddFlow
<1> QED
  BY <1>5, <1>6

LEMMA TableValueIs ==
  ASSUME Ctx, WorkShape, PipeSane, FrontSane, FrontFlow, Captures, InOrder, MulFlow, AddFlow,
         NEW r \in Events, r.pair <= Len(Pairs)
  PROVE  FrontValue(r.pair, r.tag) = Right(r.pair, r.tag)
<1>. DEFINE k == r.pair
            g == r.tag
            i == committed[Pairs[k][1]]
            j == committed[Pairs[k][2]]
<1>1. k \in 1..Len(Pairs) /\ g \in 1..20
  <2>1. k \in 1..MaxPairs /\ g \in Tags
    BY EventIs
  <2>2. Tags = 1..20
    BY FrontEndIs
  <2>3. Len(Pairs) \in Nat /\ MaxPairs \in Nat /\ k <= Len(Pairs)
    BY CtxIs
  <2> HIDE DEF k, g
  <2> QED
    BY <2>1, <2>2, <2>3
<1>2. \A m \in FrontEnd[g].of : Forwarded(k, m) = FrontOf(i, j, job.dt, m)
  BY OperandIs DEF Right
<1>3. g \in 1..3 => /\ work[job.pairs[k][1]].r[g] = i.r[g]
                    /\ work[job.pairs[k][2]].r[g] = j.r[g]
  <2>1. 1 \in {1, 2} /\ 2 \in {1, 2}
    OBVIOUS
  <2> QED
    BY <2>1, PositionIs DEF Pairs
<1>4. work[job.pairs[k][1]].m = i.m /\ work[job.pairs[k][2]].m = j.m
  <2>1. Pairs[k][1] \in 1..Bodies /\ Pairs[k][2] \in 1..Bodies
    <3> HIDE DEF k
    <3> QED
      BY <1>1, CtxIs, PairOfList
  <2>2. \A b \in 1..Bodies : work[b].m = committed[b].m
    BY DEF WorkShape
  <2> QED
    BY <2>1, <2>2 DEF Pairs
<1> HIDE DEF k, g, i, j
<1>5. FrontValue(k, g) = FrontOf(i, j, job.dt, g)
  BY <1>1, <1>2, <1>3, <1>4, FrontValueIs
<1> QED
  BY <1>5 DEF k, g, i, j, Right

-----------------------------------------------------------------------------
(* The clock edge.                                                           *)

Edge == StepEdge /\ job' = job /\ committed' = committed

LEMMA ChosenAre ==
  /\ AccChosen \subseteq Eligible /\ AccChosen \subseteq AccOps \ issued
  /\ MulChosen \subseteq MulReady /\ MulChosen \subseteq Lanes \ mulIssued
  /\ AddChosen \subseteq AddReady /\ AddChosen \subseteq Lanes \ addIssued
<1>1. \A k, S : FirstOf(k, S) \subseteq S
  BY DEF FirstOf
<1>2. \A k, S : FirstLanes(k, S) \subseteq S
  BY DEF FirstLanes
<1>3. AccChosen \subseteq Eligible /\ MulChosen \subseteq MulReady /\ AddChosen \subseteq AddReady
  BY <1>1, <1>2 DEF AccChosen, MulChosen, AddChosen
<1>4. Eligible \subseteq AccOps \ issued
  BY DEF Eligible, Unissued
<1>5. MulReady \subseteq Lanes \ mulIssued
  BY DEF MulReady
<1>6. AddReady \subseteq Lanes \ addIssued
  BY DEF AddReady
<1> QED
  BY <1>3, <1>4, <1>5, <1>6

IsFrontEntry(p) ==
  /\ p.what = "front"
  /\ \E r \in Events : /\ r.pair <= Len(Pairs) /\ p.at = <<r.pair, r.tag>>
                       /\ p.due = cyc + UnitLat(r.tag) /\ p.value = FrontValue(r.pair, r.tag)
IsAccEntry(p) ==
  /\ p.what = "acc" /\ p.due = cyc + Lat["ADD"]
  /\ \E e \in AccChosen :
       /\ p.at = AccLane(e)
       /\ p.value = Merge(e, Velocity(AccLane(e)), scratch[PairOf(e)][15 + ((e - 1) % 6)])
IsAddEntry(p) ==
  /\ p.what = "add" /\ p.due = cyc + Lat["ADD"] /\ p.at \in AddChosen
  /\ p.value = FAdd(work[p.at[1]].r[p.at[2]], product[p.at][1])
IsMulEntry(p) ==
  /\ p.what = "mul" /\ p.due = cyc + Lat["MUL"] /\ p.at \in MulChosen
  /\ p.value = FMul(job.dt, work[p.at[1]].v[p.at[2]])

LEMMA NewEntry ==
  ASSUME NEW p \in Issues
  PROVE  IsFrontEntry(p) \/ IsAccEntry(p) \/ IsAddEntry(p) \/ IsMulEntry(p)
<1>0. \A u, w, a, v : /\ Issue(u, w, a, v).what = w /\ Issue(u, w, a, v).at = a
                       /\ Issue(u, w, a, v).value = v /\ Issue(u, w, a, v).due = cyc + Lat[u]
  BY DEF Issue
<1>1. CASE p \in FrontIssues
  <2>1. PICK r \in Events : /\ r.pair <= Len(Pairs)
                            /\ p = Issue(FrontEnd[r.tag].unit, "front", <<r.pair, r.tag>>, FrontValue(r.pair, r.tag))
    BY <1>1 DEF FrontIssues
  <2> QED
    BY <1>0, <2>1 DEF IsFrontEntry, UnitLat
<1>2. CASE p \in {AccIssue(e) : e \in AccChosen}
  <2>1. PICK e \in AccChosen : p = AccIssue(e)
    BY <1>2
  <2>2. p = Issue("ADD", "acc", AccLane(e),
                  Merge(e, Velocity(AccLane(e)), scratch[PairOf(e)][15 + ((e - 1) % 6)]))
    BY <2>1 DEF AccIssue, Merge
  <2> QED
    BY <1>0, <2>2 DEF IsAccEntry
<1>3. CASE p \in {Issue("ADD", "add", l, FAdd(work[l[1]].r[l[2]], product[l][1])) : l \in AddChosen}
  <2>1. PICK l \in AddChosen : p = Issue("ADD", "add", l, FAdd(work[l[1]].r[l[2]], product[l][1]))
    BY <1>3
  <2>2. p.what = "add" /\ p.at = l /\ p.value = FAdd(work[l[1]].r[l[2]], product[l][1]) /\ p.due = cyc + Lat["ADD"]
    BY <1>0, <2>1
  <2> QED
    BY <2>2 DEF IsAddEntry
<1>4. CASE p \in {Issue("MUL", "mul", l, FMul(job.dt, work[l[1]].v[l[2]])) : l \in MulChosen}
  <2>1. PICK l \in MulChosen : p = Issue("MUL", "mul", l, FMul(job.dt, work[l[1]].v[l[2]]))
    BY <1>4
  <2>2. p.what = "mul" /\ p.at = l /\ p.value = FMul(job.dt, work[l[1]].v[l[2]]) /\ p.due = cyc + Lat["MUL"]
    BY <1>0, <2>1
  <2> QED
    BY <2>2 DEF IsMulEntry
<1> QED
  BY <1>1, <1>2, <1>3, <1>4 DEF Issues

LEMMA PipeNext ==
  ASSUME Edge, NEW p \in pipe'
  PROVE  \/ p \in pipe /\ p.due # cyc
         \/ IsFrontEntry(p) \/ IsAccEntry(p) \/ IsAddEntry(p) \/ IsMulEntry(p)
<1>1. p \in (pipe \ Retiring) \/ p \in Issues
  BY DEF Edge, StepEdge
<1>2. p \in (pipe \ Retiring) => p \in pipe /\ p.due # cyc
  BY DEF Retiring
<1> QED
  BY <1>1, <1>2, NewEntry

\* What stays in the pipe, and what is new there.
LEMMA PipeHolds ==
  ASSUME Edge
  PROVE  /\ \A p \in pipe : p.due # cyc => p \in pipe'
         /\ Issues \subseteq pipe'
  BY DEF Edge, StepEdge, Retiring

LEMMA UnitsTakeTime == Lat["ADD"] \in Nat \ {0} /\ Lat["MUL"] \in Nat \ {0}
  BY ScheduleAssumption

LEMMA CycleNext ==
  ASSUME PipeSane, Edge
  PROVE  /\ cyc \in 0..255 /\ cyc' \in 0..255 /\ cyc <= cyc' /\ cyc' <= cyc + 1
         /\ cyc' < 255 => cyc < 255 /\ cyc' = cyc + 1
<1>1. cyc' = IF cyc = 255 THEN cyc ELSE cyc + 1
  BY DEF Edge, StepEdge, Parked
<1>2. cyc \in 0..255
  BY DEF PipeSane, Parked
<1> QED
  BY <1>1, <1>2

LEMMA PipeSaneNext ==
  ASSUME PipeSane, Edge
  PROVE  PipeSane'
<1>1. cyc \in 0..255 /\ cyc' \in 0..255 /\ cyc' <= cyc + 1
  BY CycleNext
<1>2. ASSUME NEW p \in pipe' PROVE p.due \in Nat /\ p.due >= cyc'
  <2>1. CASE p \in pipe /\ p.due # cyc
    <3>1. p.due \in Nat /\ p.due >= cyc
      BY <2>1 DEF PipeSane
    <3> QED
      BY <1>1, <2>1, <3>1
  <2>2. CASE IsFrontEntry(p)
    <3>1. PICK r \in Events : p.due = cyc + UnitLat(r.tag)
      BY <2>2 DEF IsFrontEntry
    <3>2. UnitLat(r.tag) \in Nat \ {0}
      BY EventIs, LatIs
    <3> QED
      BY <1>1, <3>1, <3>2
  <2>3. CASE IsAccEntry(p) \/ IsAddEntry(p) \/ IsMulEntry(p)
    <3>1. p.due = cyc + Lat["ADD"] \/ p.due = cyc + Lat["MUL"]
      BY <2>3 DEF IsAccEntry, IsAddEntry, IsMulEntry
    <3> QED
      BY <1>1, <3>1, UnitsTakeTime
  <2> QED
    BY <2>1, <2>2, <2>3, PipeNext
<1>3. cyc' \in 0..Parked /\ \A p \in pipe' : p.due \in Nat /\ p.due >= cyc'
  BY <1>1, <1>2 DEF Parked
<1> QED
  BY <1>3 DEF PipeSane, Parked

LEMMA RightNext ==
  ASSUME Edge
  PROVE  /\ Pairs' = Pairs /\ Len(Pairs)' = Len(Pairs) /\ \A k, g : Right(k, g)' = Right(k, g)
  BY DEF Edge, Pairs, Right

LEMMA FrontSaneNext ==
  ASSUME Ctx, WorkShape, PipeSane, FrontSane, FrontFlow, Captures, InOrder, MulFlow, AddFlow, Edge
  PROVE  FrontSane'
<1>1. ASSUME NEW p \in pipe', p.what = "front"
      PROVE  \E r \in Rows : /\ r.pair <= Len(Pairs) /\ p.at = <<r.pair, r.tag>>
                             /\ p.due = r.cycle + UnitLat(r.tag) /\ p.value = Right(r.pair, r.tag)
  <2>1. CASE p \in pipe
    BY <1>1, <2>1 DEF FrontSane
  <2>2. CASE IsFrontEntry(p)
    <3>1. PICK r \in Events : /\ r.pair <= Len(Pairs) /\ p.at = <<r.pair, r.tag>>
                              /\ p.due = cyc + UnitLat(r.tag) /\ p.value = FrontValue(r.pair, r.tag)
      BY <2>2 DEF IsFrontEntry
    <3>2. r \in Rows /\ r.cycle = cyc
      BY EventIs
    <3>3. p.value = Right(r.pair, r.tag)
      BY <3>1, TableValueIs
    <3> QED
      BY <3>1, <3>2, <3>3
  <2>3. ~ (IsAccEntry(p) \/ IsAddEntry(p) \/ IsMulEntry(p))
    BY <1>1 DEF IsAccEntry, IsAddEntry, IsMulEntry
  <2> QED
    BY <2>1, <2>2, <2>3, PipeNext
<1> QED
  BY <1>1, RightNext DEF FrontSane

\* The scratch registers behind the edge.
LEMMA ScratchNext ==
  ASSUME Edge, FrontSane, NEW k \in 1..MaxPairs, NEW g \in Tags
  PROVE  /\ scratch[k][g] = Right(k, g) => scratch'[k][g] = Right(k, g)
         /\ \A p \in Retiring : p.what = "front" /\ p.at = <<k, g>> => scratch'[k][g] = Right(k, g)
<1>. DEFINE now == {p \in Retiring : p.what = "front" /\ p.at = <<k, g>>}
<1>1. scratch'[k][g] = IF now = {} THEN scratch[k][g] ELSE (CHOOSE p \in now : TRUE).value
  BY DEF Edge, StepEdge, Arriving
<1>2. now # {} => (CHOOSE p \in now : TRUE).value = Right(k, g)
  <2>1. SUFFICES ASSUME now # {} PROVE (CHOOSE p \in now : TRUE).value = Right(k, g)
    OBVIOUS
  <2>. DEFINE p == CHOOSE p \in now : TRUE
  <2>2. p \in now
    BY <2>1
  <2>3. p \in pipe /\ p.what = "front" /\ p.at = <<k, g>>
    BY <2>2 DEF Retiring
  <2> HIDE DEF p, now
  <2>4. p.value = Right(k, g)
    BY <2>3, FrontArrives
  <2> QED
    BY <2>4 DEF p
<1>3. \A p \in Retiring : p.what = "front" /\ p.at = <<k, g>> => now # {}
  OBVIOUS
<1> HIDE DEF now
<1> QED
  BY <1>1, <1>2, <1>3

LEMMA FrontFlowNext ==
  ASSUME Ctx, PipeSane, FrontSane, FrontFlow, Edge
  PROVE  FrontFlow'
<1>1. ASSUME cyc' < Parked, NEW r \in Rows, r.pair <= Len(Pairs), r.cycle < cyc'
      PROVE  IF cyc' <= r.cycle + UnitLat(r.tag)
             THEN \E p \in pipe' : p.what = "front" /\ p.at = <<r.pair, r.tag>> /\ p.due = r.cycle + UnitLat(r.tag)
             ELSE scratch'[r.pair][r.tag] = Right(r.pair, r.tag)
  <2>1. cyc \in 0..254 /\ cyc' = cyc + 1
    BY <1>1, CycleNext DEF Parked
  <2>2. /\ r.cycle \in Nat /\ UnitLat(r.tag) \in Nat \ {0} /\ r.pair \in 1..MaxPairs /\ r.tag \in Tags
    BY RowIs
  <2>3. CASE r.cycle = cyc
    <3>1. r \in Events
      BY <2>3 DEF Events
    <3>. DEFINE p == Issue(FrontEnd[r.tag].unit, "front", <<r.pair, r.tag>>, FrontValue(r.pair, r.tag))
    <3>2. p \in FrontIssues
      BY <1>1, <3>1 DEF FrontIssues
    <3>3. p \in pipe'
      BY <3>2, PipeHolds DEF Issues
    <3>4. p.what = "front" /\ p.at = <<r.pair, r.tag>> /\ p.due = r.cycle + UnitLat(r.tag)
      BY <2>3 DEF Issue, UnitLat
    <3> HIDE DEF p
    <3>5. cyc' <= r.cycle + UnitLat(r.tag)
      BY <2>1, <2>2, <2>3
    <3> QED
      BY <3>3, <3>4, <3>5
  <2>4. CASE r.cycle < cyc /\ cyc <= r.cycle + UnitLat(r.tag)
    <3>1. InFlight(r)
      <4>1. cyc < Parked
        BY <2>1 DEF Parked
      <4>2. r.pair <= Len(Pairs) /\ r.cycle < cyc /\ cyc <= r.cycle + UnitLat(r.tag)
        BY <1>1, <2>4
      <4>3. IF cyc <= r.cycle + UnitLat(r.tag) THEN InFlight(r) ELSE scratch[r.pair][r.tag] = Right(r.pair, r.tag)
        BY <4>1, <4>2 DEF FrontFlow
      <4> QED
        BY <4>2, <4>3
    <3>2. PICK p \in pipe : p.what = "front" /\ p.at = <<r.pair, r.tag>> /\ p.due = r.cycle + UnitLat(r.tag)
      BY <3>1 DEF InFlight
    <3>3. CASE p.due = cyc
      <4>1. p \in Retiring
        BY <3>3 DEF Retiring
      <4>2. scratch'[r.pair][r.tag] = Right(r.pair, r.tag)
        BY <2>2, <3>2, <4>1, ScratchNext
      <4>3. ~ (cyc' <= r.cycle + UnitLat(r.tag))
        BY <2>1, <2>2, <3>2, <3>3
      <4> QED
        BY <4>2, <4>3
    <3>4. CASE p.due # cyc
      <4>1. p \in pipe'
        BY <3>4, PipeHolds
      <4>2. cyc' <= r.cycle + UnitLat(r.tag)
        BY <2>1, <2>2, <2>4, <3>2, <3>4
      <4> QED
        BY <3>2, <4>1, <4>2
    <3> QED
      BY <3>3, <3>4
  <2>5. CASE r.cycle < cyc /\ ~ (cyc <= r.cycle + UnitLat(r.tag))
    <3>1. scratch[r.pair][r.tag] = Right(r.pair, r.tag)
      BY <1>1, <2>1, <2>5 DEF FrontFlow, Parked
    <3>2. scratch'[r.pair][r.tag] = Right(r.pair, r.tag)
      BY <2>2, <3>1, ScratchNext
    <3>3. ~ (cyc' <= r.cycle + UnitLat(r.tag))
      BY <2>1, <2>2, <2>5
    <3> QED
      BY <3>2, <3>3
  <2> QED
    BY <1>1, <2>1, <2>2, <2>3, <2>4, <2>5
<1> QED
  BY <1>1, RightNext DEF FrontFlow, InFlight, Parked

LEMMA CapturesNext ==
  ASSUME Ctx, PipeSane, FrontSane, Captures, Edge
  PROVE  Captures'
<1>1. ASSUME NEW k \in 1..MaxPairs, NEW g \in captured'[k]
      PROVE  /\ k <= Len(Pairs) /\ scratch'[k][g] = Right(k, g)
             /\ \E r \in Rows : r.pair = k /\ r.tag = g /\ r.cycle + UnitLat(g) <= cyc'
  <2>1. cyc \in 0..255 /\ cyc' \in 0..255 /\ cyc <= cyc'
    BY CycleNext
  <2>2. captured'[k] = captured[k] \cup {p.at[2] : p \in {q \in Retiring : q.what = "front" /\ q.at[1] = k}}
    BY DEF Edge, StepEdge
  <2>3. CASE g \in captured[k]
    <3>1. k <= Len(Pairs) /\ scratch[k][g] = Right(k, g)
      BY <2>3 DEF Captures
    <3>2. PICK r \in Rows : r.pair = k /\ r.tag = g /\ r.cycle + UnitLat(g) <= cyc
      BY <2>3 DEF Captures
    <3>3. g \in Tags /\ r.cycle + UnitLat(g) <= cyc'
      <4>1. r.cycle \in Nat /\ r.tag \in Tags /\ UnitLat(r.tag) \in Nat \ {0}
        BY RowIs
      <4> QED
        BY <2>1, <3>2, <4>1
    <3>4. scratch'[k][g] = Right(k, g)
      BY <3>1, <3>3, ScratchNext
    <3> QED
      BY <3>1, <3>2, <3>3, <3>4
  <2>4. CASE g \notin captured[k]
    <3>1. PICK p \in Retiring : p.what = "front" /\ p.at[1] = k /\ p.at[2] = g
      BY <2>2, <2>4
    <3>2. p \in pipe /\ p.due = cyc
      BY DEF Retiring
    <3>3. PICK r \in Rows : r.pair <= Len(Pairs) /\ p.at = <<r.pair, r.tag>> /\ p.due = r.cycle + UnitLat(r.tag)
      BY <3>1, <3>2 DEF FrontSane
    <3>4. r.pair = k /\ r.tag = g /\ g \in Tags
      BY <3>1, <3>3, RowIs
    <3>5. scratch'[k][g] = Right(k, g)
      BY <3>1, <3>3, <3>4, ScratchNext
    <3> QED
      BY <2>1, <3>2, <3>3, <3>4, <3>5
  <2> QED
    BY <2>3, <2>4
<1> QED
  BY <1>1, RightNext DEF Captures

-----------------------------------------------------------------------------
(* The accumulator.                                                          *)

LEMMA LawsNext ==
  ASSUME Edge
  PROVE  /\ AccOps' = AccOps /\ \A e : AccLane(e)' = AccLane(e)
         /\ Goal' = Goal /\ AllOps' = AllOps /\ Pairs' = Pairs
         /\ \A l : Drifted(l)' = Drifted(l)
         /\ \A l : MovedTo(l)' = MovedTo(l)
<1>1. job' = job /\ committed' = committed
  BY DEF Edge
<1>2. Pairs' = Pairs /\ AccOps' = AccOps /\ AllOps' = AllOps /\ Goal' = Goal
  BY <1>1 DEF Pairs, AccOps, AllOps, Goal
<1>3. \A e : AccLane(e)' = AccLane(e)
  BY <1>2 DEF AccLane
<1>4. \A l : Drifted(l)' = Drifted(l)
  BY <1>1, <1>2 DEF Drifted
<1>5. \A l : MovedTo(l)' = MovedTo(l)
  BY <1>1, <1>4 DEF MovedTo
<1> QED
  BY <1>2, <1>3, <1>4, <1>5

LEMMA UptoNext == Edge => \A l, e : Upto(l, e)' <=> UptoIn(issued', l, e)
<1> SUFFICES ASSUME Edge PROVE \A l, e : Upto(l, e)' <=> UptoIn(issued', l, e)
  OBVIOUS
<1> QED
  BY LawsNext DEF Upto, UptoIn

LEMMA InOrderNext ==
  ASSUME Ctx, InOrder, Edge
  PROVE  InOrder'
<1>1. issued' = issued \cup AccChosen
  BY DEF Edge, StepEdge
<1>2. issued' \subseteq AccOps
  BY <1>1, ChosenAre DEF InOrder
<1>3. ASSUME NEW e \in issued' PROVE ForceReady(PairOf(e))'
  <2>1. ForceReady(PairOf(e))
    BY <1>1, ChosenAre DEF InOrder, Eligible
  <2>2. PairOf(e) \in 1..MaxPairs
    BY <1>2, AccLaneIs, CtxIs
  <2>3. captured[PairOf(e)] \subseteq captured'[PairOf(e)]
    BY <2>2 DEF Edge, StepEdge
  <2> QED
    BY <2>1, <2>3 DEF ForceReady
<1>4. ASSUME NEW e \in issued', NEW f \in AccOps, f < e, AccLane(f) = AccLane(e) PROVE f \in issued'
  <2>1. CASE e \in issued
    BY <1>1, <1>4, <2>1 DEF InOrder
  <2>2. CASE e \in AccChosen
    BY <1>1, <1>4, <2>2, ChosenAre DEF Eligible, Unissued
  <2> QED
    BY <1>1, <2>1, <2>2
<1> QED
  BY <1>2, <1>3, <1>4, LawsNext DEF InOrder

\* What a chosen operation finds.
LEMMA ChosenIs ==
  ASSUME NEW e \in AccChosen
  PROVE  /\ e \in AccOps /\ e \notin issued /\ ForceReady(PairOf(e))
         /\ AccLane(e) \in busy => AccLane(e) \in Clearing
         /\ \A f \in AccOps \ issued : f < e => AccLane(f) # AccLane(e)
  BY ChosenAre DEF Eligible, Unissued

LEMMA ClearingIs ==
  ASSUME NEW l, l \in Clearing
  PROVE  \E p \in pipe : p.what = "acc" /\ p.at = l /\ p.due = cyc
  BY DEF Clearing, Retiring

\* A lane has no operation in flight behind one that retires now.
LEMMA LaneClears ==
  ASSUME AccFlow, NEW p \in pipe, p.what = "acc", p.at \in Clearing
  PROVE  p.due = cyc
<1>1. PICK q \in pipe : q.what = "acc" /\ q.at = p.at /\ q.due = cyc
  BY ClearingIs
<1> QED
  BY <1>1 DEF AccFlow

LEMMA ChosenLaneIdle ==
  ASSUME AccFlow, NEW e \in AccChosen, NEW p \in pipe, p.what = "acc", p.at = AccLane(e)
  PROVE  p.due = cyc
<1>1. p.at \in busy
  BY DEF AccFlow
<1>2. p.at \in Clearing
  BY <1>1, ChosenIs
<1> QED
  BY <1>2, LaneClears

LEMMA UptoBefore ==
  ASSUME Ctx, InOrder, NEW e \in AccChosen
  PROVE  e - 1 \in 0..AllOps /\ e \in 1..AllOps /\ Upto(AccLane(e), e - 1)
<1>1. e \in AccOps /\ e \notin issued /\ e \in 1..AllOps /\ AllOps \in Nat
  BY ChosenIs, CtxIs DEF AccOps, AllOps
<1>2. ASSUME NEW f \in AccOps, AccLane(f) = AccLane(e) PROVE f \in issued <=> f <= e - 1
  <2>1. f \in Nat /\ e \in Nat
    BY <1>1, CtxIs DEF AccOps
  <2>2. f < e => f \in issued
    BY <1>2, ChosenIs
  <2>3. e < f => f \notin issued
    BY <1>1, <1>2 DEF InOrder
  <2>4. e = f => f \notin issued
    BY <1>1
  <2> QED
    BY <2>1, <2>2, <2>3, <2>4
<1> QED
  BY <1>1, <1>2 DEF Upto, UptoIn

\* An operation that is retiring on a lane has the value that is due there.
LEMMA RetiringIs ==
  ASSUME AccFlow, NEW l \in Lanes, NEW e \in 0..AllOps, Upto(l, e), NEW now,
         now = {p \in Retiring : p.what = "acc" /\ p.at = l}, now # {}
  PROVE  (CHOOSE p \in now : TRUE).value = Goal[e][l]
<1>. DEFINE p == CHOOSE p \in now : TRUE
<1>1. p \in now
  BY Zenon
<1>2. p \in pipe /\ p.what = "acc" /\ p.at = l
  BY <1>1 DEF Retiring
<1> HIDE DEF p
<1>3. p.value = Goal[e][l]
  BY <1>2 DEF AccFlow
<1> QED
  BY <1>3 DEF p

LEMMA LaneValueIs ==
  ASSUME Ctx, AccFlow, NEW l \in Lanes, NEW e \in 0..AllOps, Upto(l, e), l \in busy => l \in Clearing
  PROVE  Velocity(l) = Goal[e][l]
<1>. DEFINE now == {p \in Retiring : p.what = "acc" /\ p.at = l}
<1>1. Velocity(l) = IF l \in busy /\ now # {} THEN (CHOOSE p \in now : TRUE).value ELSE work[l[1]].v[l[2]]
  BY DEF Velocity
<1>2. l \in busy => now # {}
  BY DEF Clearing
<1>3. l \notin busy => work[l[1]].v[l[2]] = Goal[e][l]
  BY DEF AccFlow
<1>4. now = {p \in Retiring : p.what = "acc" /\ p.at = l}
  OBVIOUS
<1> HIDE DEF now
<1>5. now # {} => (CHOOSE p \in now : TRUE).value = Goal[e][l]
  BY <1>4, RetiringIs
<1> QED
  BY <1>1, <1>2, <1>3, <1>5

LEMMA VelocityIs ==
  ASSUME Ctx, InOrder, AccFlow, NEW e \in AccChosen
  PROVE  Velocity(AccLane(e)) = Goal[e - 1][AccLane(e)]
<1>1. AccLane(e) \in Lanes /\ e - 1 \in 0..AllOps /\ Upto(AccLane(e), e - 1)
  BY AccLaneIs, UptoBefore, ChosenIs
<1>2. AccLane(e) \in busy => AccLane(e) \in Clearing
  BY ChosenIs
<1> QED
  BY <1>1, <1>2, LaneValueIs

LEMMA AccValueIs ==
  ASSUME Ctx, Captures, InOrder, AccFlow, NEW e \in AccChosen
  PROVE  Merge(e, Velocity(AccLane(e)), scratch[PairOf(e)][15 + ((e - 1) % 6)]) = Goal[e][AccLane(e)]
<1>. DEFINE l == AccLane(e)
            g == 15 + ((e - 1) % 6)
<1>1. /\ e \in AccOps /\ e \in 1..AllOps /\ l \in Lanes /\ l = LaneIn(Pairs, e)
      /\ PairOf(e) \in 1..MaxPairs /\ ForceReady(PairOf(e))
  BY ChosenIs, UptoBefore, AccLaneIs, CtxIs
<1>2. g \in 15..20
  BY <1>1, CtxIs DEF AllOps
<1>3. scratch[PairOf(e)][g] = Right(PairOf(e), g)
  <2>1. g \in captured[PairOf(e)]
    BY <1>1, <1>2 DEF ForceReady
  <2> HIDE DEF g
  <2> QED
    BY <1>1, <2>1 DEF Captures
<1>4. Right(PairOf(e), g) = ForceIn(committed, Pairs, job.dt, e)
  BY DEF Right, ForceIn
<1>5. Goal[e][l] = Merge(e, Goal[e - 1][l], ForceIn(committed, Pairs, job.dt, e))
  <2> HIDE DEF l
  <2> QED
    BY <1>1, CtxIs, TargetIs DEF Goal, AllOps
<1>6. Velocity(l) = Goal[e - 1][l]
  BY VelocityIs
<1> HIDE DEF l, g
<1>7. Merge(e, Velocity(l), scratch[PairOf(e)][g]) = Goal[e][l]
  BY <1>3, <1>4, <1>5, <1>6
<1> QED
  BY <1>7 DEF l, g

\* Behind the edge a chosen operation is the last on its lane.
LEMMA ChosenIsLast ==
  ASSUME Ctx, InOrder, Edge, NEW c \in AccChosen, NEW e \in 0..AllOps, UptoIn(issued', AccLane(c), e)
  PROVE  Goal[e][AccLane(c)] = Goal[c][AccLane(c)]
<1>. DEFINE l == AccLane(c)
<1>1. c \in AccOps /\ c \in 1..AllOps /\ l \in Lanes /\ c \notin issued /\ AllOps \in Nat
  BY ChosenIs, UptoBefore, AccLaneIs, CtxIs
<1>2. issued' = issued \cup AccChosen
  BY DEF Edge, StepEdge
<1>3. c <= e
  BY <1>1, <1>2 DEF UptoIn
<1>4. ASSUME NEW f \in (c + 1)..e PROVE LaneIn(Pairs, f) # l
  <2>1. SUFFICES ASSUME LaneIn(Pairs, f) = l PROVE FALSE
    OBVIOUS
  <2>2. f \in AccOps /\ c < f /\ f <= e
    BY <1>1 DEF AccOps, AllOps
  <2>3. AccLane(f) = l
    BY <2>1, <2>2, AccLaneIs
  <2>4. f \in issued'
    BY <2>2, <2>3 DEF UptoIn
  <2>5. f \notin issued
    BY <1>1, <2>2, <2>3 DEF InOrder
  <2>6. f \in AccChosen
    BY <1>2, <2>4, <2>5
  <2> QED
    BY <1>1, <2>2, <2>3, <2>6, ChosenIs
<1> HIDE DEF l
<1>5. Goal[e][l] = Goal[c][l]
  <2>1. c \in 0..AllOps /\ \A f \in (c + 1)..e : LaneIn(Pairs, f) # l
    BY <1>1, <1>4
  <2> QED
    BY <1>1, <1>3, <2>1, CtxIs, TargetKeeps DEF Goal, AllOps
<1> QED
  BY <1>5 DEF l

LEMMA IdleLaneUpto ==
  ASSUME Edge, NEW l, \A c \in AccChosen : AccLane(c) # l, NEW e, UptoIn(issued', l, e)
  PROVE  Upto(l, e)
<1>1. issued' = issued \cup AccChosen
  BY DEF Edge, StepEdge
<1> QED
  BY <1>1 DEF Upto, UptoIn

-----------------------------------------------------------------------------
(* The working bank.                                                         *)

Comes(what, at) == \E p \in Retiring : p.what = what /\ p.at = at
Brings(what, at, value) == \A p \in Retiring : p.what = what /\ p.at = at => p.value = value

LEMMA ArrivingIs ==
  ASSUME NEW what, NEW at, NEW old, NEW value, Brings(what, at, value)
  PROVE  Arriving(what, at, old) = IF Comes(what, at) THEN value ELSE old
<1>. DEFINE now == {p \in Retiring : p.what = what /\ p.at = at}
<1>1. Arriving(what, at, old) = IF now = {} THEN old ELSE (CHOOSE p \in now : TRUE).value
  BY DEF Arriving
<1>2. now # {} <=> Comes(what, at)
  BY DEF Comes
<1>3. \A p \in now : p.value = value
  BY DEF Brings
<1> HIDE DEF now
<1>4. now # {} => (CHOOSE p \in now : TRUE) \in now
  BY Zenon
<1>5. now # {} => (CHOOSE p \in now : TRUE).value = value
  BY <1>3, <1>4
<1> QED
  BY <1>1, <1>2, <1>5

VelocityNext(b) == [c \in 1..3 |-> Arriving("acc", <<b, c>>, work[b].v[c])]
PositionNext(b) == [c \in 1..3 |-> Arriving("add", <<b, c>>, work[b].r[c])]

BodyOf(r, v, m) == [r |-> r, v |-> v, m |-> m]
Renewed(s, r, v) == [s EXCEPT !.v = v, !.r = r]

LEMMA BodySet ==
  ASSUME NEW r, NEW v, NEW m, NEW r1, NEW v1
  PROVE  Renewed(BodyOf(r, v, m), r1, v1) = BodyOf(r1, v1, m)
<1>1. [BodyOf(r, v, m) EXCEPT !.v = v1, !.r = r1] = [[BodyOf(r, v, m) EXCEPT !.v = v1] EXCEPT !.r = r1]
  OBVIOUS
<1>2. [BodyOf(r, v, m) EXCEPT !.v = v1] = BodyOf(r, v1, m)
  BY DEF BodyOf
<1>3. [BodyOf(r, v1, m) EXCEPT !.r = r1] = BodyOf(r1, v1, m)
  BY DEF BodyOf
<1> QED
  BY <1>1, <1>2, <1>3 DEF Renewed

LEMMA WorkNext ==
  ASSUME WorkShape, Edge
  PROVE  /\ WorkShape'
         /\ \A l \in Lanes :
              /\ work'[l[1]].v[l[2]] = Arriving("acc", l, work[l[1]].v[l[2]])
              /\ work'[l[1]].r[l[2]] = Arriving("add", l, work[l[1]].r[l[2]])
<1>1. work' = [b \in 1..Bodies |-> Renewed(work[b], PositionNext(b), VelocityNext(b))]
  BY DEF Edge, StepEdge, VelocityNext, PositionNext, Renewed
<1>2. ASSUME NEW b \in 1..Bodies
      PROVE  work'[b] = [r |-> PositionNext(b), v |-> VelocityNext(b), m |-> committed[b].m]
  <2>1. work[b] = [r |-> work[b].r, v |-> work[b].v, m |-> committed[b].m]
    BY DEF WorkShape
  <2>2. work[b] = BodyOf(work[b].r, work[b].v, committed[b].m)
    BY <2>1 DEF BodyOf
  <2>3. Renewed(BodyOf(work[b].r, work[b].v, committed[b].m), PositionNext(b), VelocityNext(b))
          = BodyOf(PositionNext(b), VelocityNext(b), committed[b].m)
    BY BodySet
  <2> QED
    BY <1>1, <2>2, <2>3 DEF BodyOf
<1>3. committed' = committed
  BY DEF Edge
<1>4. ASSUME NEW b \in 1..Bodies
      PROVE  /\ work'[b] = [r |-> work'[b].r, v |-> work'[b].v, m |-> committed'[b].m]
             /\ work'[b].r = PositionNext(b) /\ work'[b].v = VelocityNext(b)
  <2>1. work'[b] = [r |-> PositionNext(b), v |-> VelocityNext(b), m |-> committed'[b].m]
    BY <1>2, <1>3
  <2>2. work'[b].r = PositionNext(b) /\ work'[b].v = VelocityNext(b)
    BY <2>1
  <2> QED
    BY <2>1, <2>2
<1>5. \A b \in 1..Bodies :
        work'[b].r = [c \in 1..3 |-> work'[b].r[c]] /\ work'[b].v = [c \in 1..3 |-> work'[b].v[c]]
  BY <1>4 DEF PositionNext, VelocityNext
<1>6. work' = [b \in 1..Bodies |-> work'[b]]
  BY <1>1
<1>7. work' = [b \in 1..Bodies |-> [r |-> work'[b].r, v |-> work'[b].v, m |-> committed'[b].m]]
  BY <1>4, <1>6
<1>8. WorkShape'
  BY <1>5, <1>7 DEF WorkShape
<1>9. ASSUME NEW l \in Lanes
      PROVE  /\ work'[l[1]].v[l[2]] = Arriving("acc", l, work[l[1]].v[l[2]])
             /\ work'[l[1]].r[l[2]] = Arriving("add", l, work[l[1]].r[l[2]])
  <2>1. PICK b \in 1..Bodies, c \in 1..3 : l = <<b, c>>
    BY DEF Lanes
  <2>2. work'[b].v[c] = Arriving("acc", <<b, c>>, work[b].v[c]) /\ work'[b].r[c] = Arriving("add", <<b, c>>, work[b].r[c])
    <3>1. work'[b].v = VelocityNext(b) /\ work'[b].r = PositionNext(b)
      BY <1>4
    <3>2. VelocityNext(b)[c] = Arriving("acc", <<b, c>>, work[b].v[c])
      BY DEF VelocityNext
    <3>3. PositionNext(b)[c] = Arriving("add", <<b, c>>, work[b].r[c])
      BY DEF PositionNext
    <3> QED
      BY <3>1, <3>2, <3>3
  <2> QED
    BY <2>1, <2>2
<1> QED
  BY <1>8, <1>9

-----------------------------------------------------------------------------
(* The lanes behind the edge.                                                *)

LEMMA BusyNext ==
  ASSUME Edge
  PROVE  /\ \A l : l \in busy' <=> (l \in busy /\ l \notin Clearing) \/ \E e \in AccChosen : AccLane(e) = l
  BY DEF Edge, StepEdge

AccBusy == \A p \in pipe : p.what = "acc" => p.at \in Lanes /\ p.at \in busy
AccRight == \A p \in pipe : p.what = "acc" => \A e \in 0..AllOps : Upto(p.at, e) => p.value = Goal[e][p.at]
AccAlone == \A p, q \in pipe : p.what = "acc" /\ q.what = "acc" /\ p.at = q.at => p.due = q.due
LaneRight == \A l \in Lanes \ busy, e \in 0..AllOps : Upto(l, e) => work[l[1]].v[l[2]] = Goal[e][l]

LEMMA AccFlowParts == AccFlow <=> AccBusy /\ AccRight /\ AccAlone /\ LaneRight
  BY DEF AccFlow, AccBusy, AccRight, AccAlone, LaneRight

\* What is in flight behind the edge was so before, on a lane that takes
\* nothing now, or is what was chosen.
LEMMA AccEntries ==
  ASSUME Ctx, InOrder, AccFlow, Captures, Edge, NEW p \in pipe', p.what = "acc"
  PROVE  \/ /\ p \in pipe /\ p.due # cyc /\ p.at \in busy /\ p.at \notin Clearing
            /\ \A e \in AccChosen : AccLane(e) # p.at
         \/ /\ p.due = cyc + Lat["ADD"]
            /\ \E e \in AccChosen : p.at = AccLane(e) /\ p.value = Goal[e][p.at]
<1>1. CASE p \in pipe /\ p.due # cyc
  <2>1. p.at \in busy
    BY <1>1 DEF AccFlow
  <2>2. p.at \notin Clearing
    BY <1>1, LaneClears
  <2>3. \A e \in AccChosen : AccLane(e) # p.at
    BY <1>1, ChosenLaneIdle
  <2> QED
    BY <1>1, <2>1, <2>2, <2>3
<1>2. CASE IsAccEntry(p)
  <2>1. PICK e \in AccChosen :
          /\ p.at = AccLane(e)
          /\ p.value = Merge(e, Velocity(AccLane(e)), scratch[PairOf(e)][15 + ((e - 1) % 6)])
    BY <1>2 DEF IsAccEntry
  <2>2. p.value = Goal[e][AccLane(e)]
    BY <2>1, AccValueIs
  <2> QED
    BY <1>2, <2>1, <2>2 DEF IsAccEntry
<1>3. ~ (IsFrontEntry(p) \/ IsAddEntry(p) \/ IsMulEntry(p))
  BY DEF IsFrontEntry, IsAddEntry, IsMulEntry
<1> QED
  BY <1>1, <1>2, <1>3, PipeNext

LEMMA AccFlowNext ==
  ASSUME Ctx, WorkShape, PipeSane, Captures, InOrder, AccFlow, Edge
  PROVE  AccFlow'
<1>1. AccBusy'
  <2>1. ASSUME NEW p \in pipe', p.what = "acc" PROVE p.at \in Lanes /\ p.at \in busy'
    <3>1. CASE p \in pipe /\ p.at \in busy /\ p.at \notin Clearing
      BY <2>1, <3>1, BusyNext DEF AccFlow
    <3>2. CASE \E e \in AccChosen : p.at = AccLane(e)
      BY <3>2, BusyNext, ChosenIs, AccLaneIs
    <3> QED
      BY <2>1, <3>1, <3>2, AccEntries
  <2> QED
    BY <2>1 DEF AccBusy
<1>2. AccRight'
  <2>1. ASSUME NEW p \in pipe', p.what = "acc", NEW e \in 0..AllOps, UptoIn(issued', p.at, e)
        PROVE  p.value = Goal[e][p.at]
    <3>1. CASE p \in pipe /\ \A c \in AccChosen : AccLane(c) # p.at
      <4>1. Upto(p.at, e)
        BY <2>1, <3>1, IdleLaneUpto
      <4> QED
        BY <2>1, <3>1, <4>1 DEF AccFlow
    <3>2. ASSUME NEW c \in AccChosen, p.at = AccLane(c), p.value = Goal[c][p.at]
          PROVE  p.value = Goal[e][p.at]
      BY <2>1, <3>2, ChosenIsLast
    <3> QED
      BY <2>1, <3>1, <3>2, AccEntries
  <2> QED
    BY <2>1, LawsNext, UptoNext DEF AccRight
<1>3. AccAlone'
  <2>1. ASSUME NEW p \in pipe', NEW q \in pipe', p.what = "acc", q.what = "acc", p.at = q.at
        PROVE  p.due = q.due
    <3>1. CASE p \in pipe /\ q \in pipe
      BY <2>1, <3>1 DEF AccFlow
    <3>2. CASE p.due = cyc + Lat["ADD"] /\ q.due = cyc + Lat["ADD"]
      BY <3>2
    <3> QED
      BY <2>1, <3>1, <3>2, AccEntries
  <2> QED
    BY <2>1 DEF AccAlone
<1>4. LaneRight'
  <2>1. ASSUME NEW l \in Lanes \ busy', NEW e \in 0..AllOps, UptoIn(issued', l, e)
        PROVE  work'[l[1]].v[l[2]] = Goal[e][l]
    <3>1. work'[l[1]].v[l[2]] = Arriving("acc", l, work[l[1]].v[l[2]])
      BY WorkNext
    <3>2. \A c \in AccChosen : AccLane(c) # l
      BY BusyNext
    <3>3. Upto(l, e)
      BY <2>1, <3>2, IdleLaneUpto
    <3>4. Brings("acc", l, Goal[e][l])
      BY <3>3 DEF AccFlow, Retiring, Brings
    <3>5. Arriving("acc", l, work[l[1]].v[l[2]])
            = IF Comes("acc", l) THEN Goal[e][l] ELSE work[l[1]].v[l[2]]
      BY <3>4, ArrivingIs
    <3>6. l \in busy => Comes("acc", l)
      <4>1. l \in busy => l \in Clearing
        BY BusyNext
      <4> QED
        BY <4>1 DEF Clearing, Comes
    <3>7. l \notin busy => work[l[1]].v[l[2]] = Goal[e][l]
      BY <3>3 DEF AccFlow
    <3> QED
      BY <3>1, <3>5, <3>6, <3>7
  <2> QED
    BY <2>1, LawsNext, UptoNext DEF LaneRight
<1>5. (AccBusy /\ AccRight /\ AccAlone /\ LaneRight)'
  BY <1>1, <1>2, <1>3, <1>4
<1> QED
  BY <1>5, AccFlowParts DEF AccFlow, AccBusy, AccRight, AccAlone, LaneRight

-----------------------------------------------------------------------------
(* The integration.                                                          *)

LEMMA DriftedIs ==
  ASSUME Ctx, NEW l \in Lanes
  PROVE  Drifted(l) \in Float /\ Drifted(l) # -1
<1>1. Goal[AllOps][l] \in Float
  <2>1. AllOps \in 0..(6 * Len(Pairs))
    BY CtxIs DEF AllOps
  <2> QED
    BY <2>1, CtxIs, TargetType DEF Goal
<1>2. Drifted(l) \in Float
  BY <1>1, CtxIs, FloatOps DEF Drifted
<1>3. -1 \notin Float
  BY DEF Float, P
<1> QED
  BY <1>2, <1>3

\* A lane that waits for nothing has the velocity behind all updates.
LEMMA SettledLane ==
  ASSUME Ctx, AccFlow, NEW l \in Lanes, l \notin LanePending, l \notin busy
  PROVE  work[l[1]].v[l[2]] = Goal[AllOps][l]
<1>1. AllOps \in 0..AllOps /\ \A f \in AccOps : f <= AllOps
  BY CtxIs DEF AccOps, AllOps
<1>2. \A f \in AccOps : AccLane(f) = l => f \in issued
  BY DEF LanePending, Unissued
<1>3. Upto(l, AllOps)
  BY <1>1, <1>2 DEF Upto, UptoIn
<1> QED
  BY <1>1, <1>3 DEF AccFlow

LEMMA PendingNext ==
  ASSUME Edge
  PROVE  /\ LanePending' \subseteq LanePending
         /\ \A l : l \notin LanePending /\ l \notin busy => l \notin busy'
<1>1. Unissued' \subseteq Unissued
  <2>1. issued \subseteq issued'
    BY DEF Edge, StepEdge
  <2> QED
    BY <2>1, LawsNext DEF Unissued
<1>2. LanePending' \subseteq LanePending
  BY <1>1, LawsNext DEF LanePending
<1>3. \A e \in AccChosen : AccLane(e) \in LanePending
  BY ChosenIs DEF LanePending, Unissued
<1> QED
  BY <1>2, <1>3, BusyNext

LEMMA MulFlowNext ==
  ASSUME Ctx, AccFlow, MulFlow, Edge
  PROVE  MulFlow'
<1>1. mulIssued' = mulIssued \cup MulChosen
  BY DEF Edge, StepEdge
<1>2. mulIssued' \subseteq Lanes /\ \A l \in mulIssued' : l \notin LanePending' /\ l \notin busy'
  <2>1. \A l \in mulIssued : l \in Lanes /\ l \notin LanePending /\ l \notin busy
    BY DEF MulFlow
  <2>2. \A l \in MulChosen : l \in Lanes /\ l \notin LanePending /\ l \notin busy
    BY ChosenAre DEF MulReady
  <2> QED
    BY <1>1, <2>1, <2>2, PendingNext
<1>3. ASSUME NEW p \in pipe', p.what = "mul" PROVE p.at \in mulIssued' /\ p.value = Drifted(p.at)
  <2>1. CASE p \in pipe
    BY <1>1, <1>3, <2>1 DEF MulFlow
  <2>2. CASE IsMulEntry(p)
    <3>1. p.at \in MulChosen /\ p.value = FMul(job.dt, work[p.at[1]].v[p.at[2]])
      BY <2>2 DEF IsMulEntry
    <3>2. p.at \in Lanes /\ p.at \notin LanePending /\ p.at \notin busy
      BY <3>1, ChosenAre DEF MulReady
    <3>3. work[p.at[1]].v[p.at[2]] = Goal[AllOps][p.at]
      BY <3>2, SettledLane
    <3> QED
      BY <1>1, <3>1, <3>3 DEF Drifted
  <2>3. ~ (IsFrontEntry(p) \/ IsAccEntry(p) \/ IsAddEntry(p))
    BY <1>3 DEF IsFrontEntry, IsAccEntry, IsAddEntry
  <2> QED
    BY <2>1, <2>2, <2>3, PipeNext
<1>4. ASSUME NEW l \in Lanes, product'[l] # <<>> PROVE l \in mulIssued' /\ product'[l] = <<Drifted(l)>>
  <2>1. product'[l] = IF Arriving("mul", l, -1) = -1 THEN product[l] ELSE <<Arriving("mul", l, -1)>>
    BY DEF Edge, StepEdge
  <2>2. Brings("mul", l, Drifted(l))
    BY DEF Brings, Retiring, MulFlow
  <2>3. Arriving("mul", l, -1) = IF Comes("mul", l) THEN Drifted(l) ELSE -1
    BY <2>2, ArrivingIs
  <2>4. Comes("mul", l) => l \in mulIssued
    BY DEF Comes, Retiring, MulFlow
  <2>5. product[l] # <<>> => l \in mulIssued /\ product[l] = <<Drifted(l)>>
    BY DEF MulFlow
  <2>6. Drifted(l) # -1
    BY DriftedIs
  <2> QED
    BY <1>1, <1>4, <2>1, <2>3, <2>4, <2>5, <2>6
<1> QED
  BY <1>2, <1>3, <1>4, LawsNext DEF MulFlow

LEMMA AddFlowNext ==
  ASSUME Ctx, WorkShape, MulFlow, AddFlow, Edge
  PROVE  AddFlow'
<1>1. addIssued' = addIssued \cup AddChosen /\ mulIssued' = mulIssued \cup MulChosen
  BY DEF Edge, StepEdge
<1>2. ASSUME NEW l \in AddChosen
      PROVE  l \in Lanes /\ l \notin addIssued /\ l \in mulIssued /\ product[l] = <<Drifted(l)>>
  <2>1. l \in Lanes /\ l \notin addIssued /\ product[l] # <<>>
    BY ChosenAre DEF AddReady
  <2> QED
    BY <2>1 DEF MulFlow
<1>3. addIssued' \subseteq mulIssued'
  BY <1>1, <1>2 DEF AddFlow
<1>4. ASSUME NEW p \in pipe', p.what = "add" PROVE p.at \in addIssued' /\ p.value = MovedTo(p.at)
  <2>1. CASE p \in pipe
    BY <1>1, <1>4, <2>1 DEF AddFlow
  <2>2. CASE IsAddEntry(p)
    <3>1. p.at \in AddChosen /\ p.value = FAdd(work[p.at[1]].r[p.at[2]], product[p.at][1])
      BY <2>2 DEF IsAddEntry
    <3>2. work[p.at[1]].r[p.at[2]] = committed[p.at[1]].r[p.at[2]]
      BY <1>2, <3>1 DEF AddFlow
    <3>3. product[p.at][1] = Drifted(p.at)
      BY <1>2, <3>1
    <3> QED
      BY <1>1, <3>1, <3>2, <3>3 DEF MovedTo
  <2>3. ~ (IsFrontEntry(p) \/ IsAccEntry(p) \/ IsMulEntry(p))
    BY <1>4 DEF IsFrontEntry, IsAccEntry, IsMulEntry
  <2> QED
    BY <2>1, <2>2, <2>3, PipeNext
<1>5. ASSUME NEW l \in Lanes
      PROVE  work'[l[1]].r[l[2]] = IF Comes("add", l) THEN MovedTo(l) ELSE work[l[1]].r[l[2]]
  <2>1. Brings("add", l, MovedTo(l))
    BY DEF Brings, Retiring, AddFlow
  <2> QED
    BY <2>1, WorkNext, ArrivingIs
<1>6. ASSUME NEW l \in Lanes \ addIssued' PROVE work'[l[1]].r[l[2]] = committed[l[1]].r[l[2]]
  <2>1. l \notin addIssued
    BY <1>1
  <2>2. ~ Comes("add", l)
    BY <2>1 DEF Comes, Retiring, AddFlow
  <2> QED
    BY <1>5, <2>1, <2>2 DEF AddFlow
<1>7. ASSUME NEW l \in addIssued', \A p \in pipe' : p.what = "add" => p.at # l
      PROVE  work'[l[1]].r[l[2]] = MovedTo(l)
  <2>1. l \notin AddChosen
    <3>1. SUFFICES ASSUME l \in AddChosen PROVE FALSE
      OBVIOUS
    <3>. DEFINE p == Issue("ADD", "add", l, FAdd(work[l[1]].r[l[2]], product[l][1]))
    <3>2. p \in Issues
      BY <3>1 DEF Issues
    <3>3. p.what = "add" /\ p.at = l
      BY DEF Issue
    <3> HIDE DEF p
    <3> QED
      BY <1>7, <3>2, <3>3, PipeHolds
  <2>2. l \in addIssued /\ l \in Lanes
    BY <1>1, <2>1 DEF AddFlow, MulFlow
  <2>3. CASE Comes("add", l)
    BY <1>5, <2>2, <2>3
  <2>4. CASE ~ Comes("add", l)
    <3>1. ASSUME NEW p \in pipe, p.what = "add" PROVE p.at # l
      <4>1. CASE p.due = cyc
        BY <2>4, <3>1, <4>1 DEF Comes, Retiring
      <4>2. CASE p.due # cyc
        BY <1>7, <3>1, <4>2, PipeHolds
      <4> QED
        BY <4>1, <4>2
    <3> QED
      BY <1>5, <2>2, <2>4, <3>1 DEF AddFlow
  <2> QED
    BY <2>3, <2>4
<1>8. committed' = committed
  BY DEF Edge
<1> QED
  BY <1>3, <1>4, <1>6, <1>7, <1>8, LawsNext DEF AddFlow

-----------------------------------------------------------------------------
(* The number of operations behind the front end.                            *)

LEMMA ImageSize ==
  ASSUME NEW S, IsFiniteSet(S), NEW f, f = [x \in S |-> f[x]]
  PROVE  /\ IsFiniteSet({f[x] : x \in S})
         /\ Cardinality({f[x] : x \in S}) <= Cardinality(S)
<1>. DEFINE T == {f[x] : x \in S}
<1>1. f \in Surjection(S, T)
  BY DEF Surjection
<1> HIDE DEF T
<1>2. IsFiniteSet(T) /\ Cardinality(T) <= Cardinality(S)
  BY <1>1, FS_Surjection
<1> QED
  BY <1>2 DEF T

LEMMA UnionSize ==
  ASSUME NEW S, NEW T, IsFiniteSet(S), IsFiniteSet(T)
  PROVE  /\ IsFiniteSet(S \cup T) /\ Cardinality(S \cup T) \in Nat
         /\ Cardinality(S) \in Nat /\ Cardinality(T) \in Nat
         /\ Cardinality(S \cup T) <= Cardinality(S) + Cardinality(T)
         /\ S \cap T = {} => Cardinality(S \cup T) = Cardinality(S) + Cardinality(T)
<1>1. IsFiniteSet(S \cup T) /\ Cardinality(S \cup T) = Cardinality(S) + Cardinality(T) - Cardinality(S \cap T)
  BY FS_Union
<1>2. IsFiniteSet(S \cap T)
  BY FS_Intersection
<1>3. Cardinality(S \cap T) \in Nat /\ Cardinality(S) \in Nat /\ Cardinality(T) \in Nat /\ Cardinality(S \cup T) \in Nat
  BY <1>1, <1>2, FS_CardinalityType
<1>4. S \cap T = {} => Cardinality(S \cap T) = 0
  BY FS_EmptySet
<1> QED
  BY <1>1, <1>3, <1>4

LEMMA LanesFinite ==
  /\ IsFiniteSet(Lanes) /\ Cardinality(Lanes) = 3 * Bodies /\ Bodies \in Nat
<1>1. Bodies \in Nat /\ Bodies >= 1
  BY ScheduleAssumption
<1>2. IsFiniteSet(1..Bodies) /\ Cardinality(1..Bodies) = Bodies /\ IsFiniteSet(1..3) /\ Cardinality(1..3) = 3
  <2>1. 1 \in Int /\ Bodies \in Int /\ 3 \in Int /\ ~ (1 > Bodies) /\ Bodies - 1 + 1 = Bodies
    BY <1>1
  <2>2. IsFiniteSet(1..Bodies) /\ Cardinality(1..Bodies) = IF 1 > Bodies THEN 0 ELSE Bodies - 1 + 1
    BY <2>1, FS_Interval
  <2>3. IsFiniteSet(1..3) /\ Cardinality(1..3) = IF 1 > 3 THEN 0 ELSE 3 - 1 + 1
    BY <2>1, FS_Interval
  <2> QED
    BY <2>1, <2>2, <2>3
<1>3. Lanes = (1..Bodies) \X (1..3)
  BY DEF Lanes
<1>4. IsFiniteSet((1..Bodies) \X (1..3)) /\ Cardinality((1..Bodies) \X (1..3)) = Bodies * 3
  <2>. DEFINE S == 1..Bodies
              T == 1..3
  <2>1. IsFiniteSet(S) /\ IsFiniteSet(T) /\ Cardinality(S) = Bodies /\ Cardinality(T) = 3
    BY <1>2
  <2> HIDE DEF S, T
  <2>2. IsFiniteSet(S \X T) /\ Cardinality(S \X T) = Cardinality(S) * Cardinality(T)
    BY <2>1, FS_Product
  <2>3. IsFiniteSet(S \X T) /\ Cardinality(S \X T) = Bodies * 3
    BY <2>1, <2>2
  <2> QED
    BY <2>3 DEF S, T
<1> QED
  BY <1>1, <1>3, <1>4

LEMMA OpsFinite ==
  ASSUME Ctx
  PROVE  IsFiniteSet(AccOps) /\ Cardinality(AccOps) = AllOps
<1>1. AllOps \in Nat
  BY CtxIs
<1>2. IsFiniteSet(1..AllOps) /\ Cardinality(1..AllOps) = AllOps
  BY <1>1, FS_Interval
<1> QED
  BY <1>2 DEF AccOps, AllOps

AddIssue(l) == Issue("ADD", "add", l, FAdd(work[l[1]].r[l[2]], product[l][1]))
MulIssue(l) == Issue("MUL", "mul", l, FMul(job.dt, work[l[1]].v[l[2]]))

LEMMA NewCount ==
  ASSUME IsFiniteSet(AccChosen), IsFiniteSet(AddChosen), IsFiniteSet(MulChosen)
  PROVE  /\ IsFiniteSet(Behind(Issues)) /\ Cardinality(Behind(Issues)) \in Nat
         /\ Cardinality(Behind(Issues)) <= Cardinality(AccChosen) + Cardinality(AddChosen) + Cardinality(MulChosen)
<1>. DEFINE F == [e \in AccChosen |-> AccIssue(e)]
            G == [l \in AddChosen |-> AddIssue(l)]
            H == [l \in MulChosen |-> MulIssue(l)]
            accs == {F[e] : e \in AccChosen}
            adds == {G[l] : l \in AddChosen}
            muls == {H[l] : l \in MulChosen}
<1>1. Behind(Issues) \subseteq (accs \cup adds) \cup muls
  <2>1. accs = {AccIssue(e) : e \in AccChosen} /\ adds = {AddIssue(l) : l \in AddChosen} /\ muls = {MulIssue(l) : l \in MulChosen}
    OBVIOUS
  <2>2. Issues = FrontIssues \cup {AccIssue(e) : e \in AccChosen} \cup {AddIssue(l) : l \in AddChosen}
                   \cup {MulIssue(l) : l \in MulChosen}
    BY DEF Issues, AddIssue, MulIssue
  <2>3. \A p \in FrontIssues : p.what = "front"
    BY DEF FrontIssues, Issue
  <2> HIDE DEF accs, adds, muls
  <2> QED
    BY <2>1, <2>2, <2>3 DEF Behind
<1>2. IsFiniteSet(accs) /\ Cardinality(accs) <= Cardinality(AccChosen)
  <2>1. F = [e \in AccChosen |-> F[e]]
    OBVIOUS
  <2> HIDE DEF F
  <2> QED
    BY <2>1, ImageSize
<1>3. IsFiniteSet(adds) /\ Cardinality(adds) <= Cardinality(AddChosen)
  <2>1. G = [e \in AddChosen |-> G[e]]
    OBVIOUS
  <2> HIDE DEF G
  <2> QED
    BY <2>1, ImageSize
<1>4. IsFiniteSet(muls) /\ Cardinality(muls) <= Cardinality(MulChosen)
  <2>1. H = [e \in MulChosen |-> H[e]]
    OBVIOUS
  <2> HIDE DEF H
  <2> QED
    BY <2>1, ImageSize
<1> HIDE DEF accs, adds, muls
<1>5. /\ IsFiniteSet(accs \cup adds) /\ Cardinality(accs \cup adds) <= Cardinality(accs) + Cardinality(adds)
      /\ Cardinality(accs) \in Nat /\ Cardinality(adds) \in Nat /\ Cardinality(accs \cup adds) \in Nat
  BY <1>2, <1>3, UnionSize
<1>6. /\ IsFiniteSet((accs \cup adds) \cup muls) /\ Cardinality((accs \cup adds) \cup muls) <= Cardinality(accs \cup adds) + Cardinality(muls)
      /\ Cardinality(muls) \in Nat /\ Cardinality((accs \cup adds) \cup muls) \in Nat
  BY <1>4, <1>5, UnionSize
<1>7. IsFiniteSet(Behind(Issues)) /\ Cardinality(Behind(Issues)) <= Cardinality((accs \cup adds) \cup muls)
  BY <1>1, <1>6, FS_Subset
<1>8. Cardinality(Behind(Issues)) \in Nat
  BY <1>7, FS_CardinalityType
<1>9. Cardinality(AccChosen) \in Nat /\ Cardinality(AddChosen) \in Nat /\ Cardinality(MulChosen) \in Nat
  BY FS_CardinalityType
<1> QED
  BY <1>2, <1>3, <1>4, <1>5, <1>6, <1>7, <1>8, <1>9

LEMMA GrownBy ==
  ASSUME NEW U, IsFiniteSet(U), NEW S, NEW T, S \subseteq U, T \subseteq U \ S
  PROVE  /\ IsFiniteSet(S) /\ IsFiniteSet(T) /\ Cardinality(S) \in Nat /\ Cardinality(T) \in Nat
         /\ Cardinality(S \cup T) = Cardinality(S) + Cardinality(T)
<1>1. IsFiniteSet(S) /\ IsFiniteSet(T)
  BY FS_Subset
<1>2. S \cap T = {}
  OBVIOUS
<1> QED
  BY <1>1, <1>2, UnionSize

LEMMA CountedNext ==
  ASSUME Ctx, InOrder, MulFlow, AddFlow, Counted, Edge
  PROVE  Counted'
<1>1. /\ retired' = retired + Cardinality(Behind(Retiring))
      /\ pipe' = (pipe \ Retiring) \cup Issues
      /\ issued' = issued \cup AccChosen /\ mulIssued' = mulIssued \cup MulChosen /\ addIssued' = addIssued \cup AddChosen
  BY DEF Edge, StepEdge, Behind
<1>2. /\ IsFiniteSet(issued) /\ IsFiniteSet(AccChosen) /\ Cardinality(issued) \in Nat /\ Cardinality(AccChosen) \in Nat
      /\ Cardinality(issued') = Cardinality(issued) + Cardinality(AccChosen)
  <2>1. issued \subseteq AccOps /\ AccChosen \subseteq AccOps \ issued
    BY ChosenAre DEF InOrder
  <2> QED
    BY <1>1, <2>1, OpsFinite, GrownBy
<1>3. /\ IsFiniteSet(mulIssued) /\ IsFiniteSet(MulChosen) /\ Cardinality(mulIssued) \in Nat /\ Cardinality(MulChosen) \in Nat
      /\ Cardinality(mulIssued') = Cardinality(mulIssued) + Cardinality(MulChosen)
  <2>1. mulIssued \subseteq Lanes /\ MulChosen \subseteq Lanes \ mulIssued
    BY ChosenAre DEF MulFlow
  <2> QED
    BY <1>1, <2>1, LanesFinite, GrownBy
<1>4. /\ IsFiniteSet(addIssued) /\ IsFiniteSet(AddChosen) /\ Cardinality(addIssued) \in Nat /\ Cardinality(AddChosen) \in Nat
      /\ Cardinality(addIssued') = Cardinality(addIssued) + Cardinality(AddChosen)
  <2>1. addIssued \subseteq Lanes /\ AddChosen \subseteq Lanes \ addIssued
    BY ChosenAre DEF MulFlow, AddFlow
  <2> QED
    BY <1>1, <2>1, LanesFinite, GrownBy
<1>5. /\ IsFiniteSet(Behind(Issues)) /\ Cardinality(Behind(Issues)) \in Nat
      /\ Cardinality(Behind(Issues)) <= Cardinality(AccChosen) + Cardinality(AddChosen) + Cardinality(MulChosen)
  BY <1>2, <1>3, <1>4, NewCount
<1>. DEFINE Left == Behind(pipe) \ Behind(Retiring)
<1>6. /\ IsFiniteSet(Left) /\ IsFiniteSet(Behind(Retiring))
      /\ Cardinality(Left) \in Nat /\ Cardinality(Behind(Retiring)) \in Nat
      /\ Cardinality(Behind(pipe)) = Cardinality(Left) + Cardinality(Behind(Retiring))
  <2>1. IsFiniteSet(Behind(pipe)) /\ Behind(Retiring) \subseteq Behind(pipe)
    BY DEF Counted, Behind, Retiring
  <2>2. Left \subseteq Behind(pipe) /\ Behind(Retiring) \subseteq Behind(pipe) \ Left
        /\ Left \cup Behind(Retiring) = Behind(pipe)
    BY <2>1
  <2>. DEFINE gone == Behind(Retiring)
              all == Behind(pipe)
  <2>3. IsFiniteSet(all) /\ Left \subseteq all /\ gone \subseteq all \ Left /\ Left \cup gone = all
    BY <2>1, <2>2
  <2> HIDE DEF Left, gone, all
  <2>4. /\ IsFiniteSet(Left) /\ IsFiniteSet(gone) /\ Cardinality(Left) \in Nat /\ Cardinality(gone) \in Nat
        /\ Cardinality(Left \cup gone) = Cardinality(Left) + Cardinality(gone)
    BY <2>3, GrownBy
  <2> QED
    BY <2>3, <2>4 DEF gone, all
<1>7. Behind(pipe') = Left \cup Behind(Issues)
  BY <1>1 DEF Behind, Retiring
<1>8. /\ IsFiniteSet(Left \cup Behind(Issues)) /\ Cardinality(Left \cup Behind(Issues)) \in Nat
      /\ Cardinality(Left \cup Behind(Issues)) <= Cardinality(Left) + Cardinality(Behind(Issues))
  <2> HIDE DEF Left
  <2> QED
    BY <1>5, <1>6, UnionSize
<1>9. retired \in Nat /\ retired + Cardinality(Behind(pipe)) <= Cardinality(issued) + Cardinality(mulIssued) + Cardinality(addIssued)
  BY DEF Counted
<1> HIDE DEF Left
<1>10. retired' + Cardinality(Behind(pipe')) <= Cardinality(issued') + Cardinality(mulIssued') + Cardinality(addIssued')
  <2>1. Cardinality(Behind(pipe')) <= Cardinality(Left) + Cardinality(Behind(Issues)) /\ Cardinality(Behind(pipe')) \in Nat
    BY <1>7, <1>8
  <2> QED
    BY <1>1, <1>2, <1>3, <1>4, <1>5, <1>6, <1>9, <2>1
<1>11. retired' \in Nat /\ IsFiniteSet(Behind(pipe'))
  <2>1. retired' \in Nat
    BY <1>1, <1>6, <1>9
  <2> QED
    BY <1>7, <1>8, <2>1
<1> QED
  BY <1>10, <1>11 DEF Counted, Behind

-----------------------------------------------------------------------------
(* A whole step.                                                             *)

LEMMA StepInvNext ==
  ASSUME Ctx, StepInv, Edge
  PROVE  StepInv'
<1>1. /\ WorkShape /\ PipeSane /\ FrontSane /\ FrontFlow /\ Captures
      /\ InOrder /\ AccFlow /\ MulFlow /\ AddFlow /\ Counted
  BY DEF StepInv
<1>2. WorkShape'
  BY <1>1, WorkNext
<1>3. PipeSane'
  BY <1>1, PipeSaneNext
<1>4. FrontSane'
  BY <1>1, FrontSaneNext
<1>5. FrontFlow'
  BY <1>1, FrontFlowNext
<1>6. Captures'
  BY <1>1, CapturesNext
<1>7. InOrder'
  BY <1>1, InOrderNext
<1>8. AccFlow'
  BY <1>1, AccFlowNext
<1>9. MulFlow'
  BY <1>1, MulFlowNext
<1>10. AddFlow'
  BY <1>1, AddFlowNext
<1>11. Counted'
  BY <1>1, CountedNext
<1> QED
  BY <1>2, <1>3, <1>4, <1>5, <1>6, <1>7, <1>8, <1>9, <1>10, <1>11 DEF StepInv

LEMMA BankShape ==
  ASSUME NEW bs \in Banks
  PROVE  /\ bs = [b \in 1..Bodies |-> [r |-> bs[b].r, v |-> bs[b].v, m |-> bs[b].m]]
         /\ \A b \in 1..Bodies : bs[b].r = [c \in 1..3 |-> bs[b].r[c]] /\ bs[b].v = [c \in 1..3 |-> bs[b].v[c]]
<1>1. \A f \in Vec : f = [c \in 1..3 |-> f[c]]
  BY DEF Vec
<1>2. \A b \in 1..Bodies : bs[b].r \in Vec /\ bs[b].v \in Vec
  BY BankIs
<1>3. \A b \in 1..Bodies : bs[b] = [r |-> bs[b].r, v |-> bs[b].v, m |-> bs[b].m]
  BY DEF Banks, BodyState
<1>4. bs = [b \in 1..Bodies |-> bs[b]]
  BY DEF Banks
<1> QED
  BY <1>1, <1>2, <1>3, <1>4

LEMMA StartLaws ==
  ASSUME job' = job
  PROVE  /\ AccOps' = AccOps /\ AllOps' = AllOps /\ Pairs' = Pairs
         /\ \A e : AccLane(e)' = AccLane(e)
         /\ Goal' = Target(committed', Pairs, job.dt)
<1>1. Pairs' = Pairs
  BY DEF Pairs
<1>2. AccOps' = AccOps /\ AllOps' = AllOps
  BY <1>1 DEF AccOps, AllOps
<1>3. \A e : AccLane(e)' = AccLane(e)
  BY <1>1 DEF AccLane
<1>4. Goal' = Target(committed', Pairs, job.dt)
  BY <1>1 DEF Goal
<1> QED
  BY <1>1, <1>2, <1>3, <1>4

\* Before the first update a lane has the velocity it starts with.
LEMMA UntouchedLane ==
  ASSUME Ctx, NEW bs \in Banks, NEW l \in Lanes, NEW e \in 0..AllOps, UptoIn({}, l, e)
  PROVE  Target(bs, Pairs, job.dt)[e][l] = bs[l[1]].v[l[2]]
<1>1. Pairs \in PairLists /\ job.dt \in Float /\ AllOps \in Nat /\ 0 \in 0..AllOps /\ 0 <= e
  BY CtxIs
<1>2. ASSUME NEW f \in (0 + 1)..e PROVE LaneIn(Pairs, f) # l
  <2>1. f \in AccOps /\ f <= e
    BY <1>1 DEF AccOps, AllOps
  <2>2. AccLane(f) # l
    BY <2>1 DEF UptoIn
  <2> QED
    BY <2>1, <2>2, AccLaneIs
<1>3. Target(bs, Pairs, job.dt)[e][l] = Target(bs, Pairs, job.dt)[0][l]
  <2>1. 0 \in 0..(6 * Len(Pairs)) /\ e \in 0..(6 * Len(Pairs))
    BY <1>1 DEF AllOps
  <2> QED
    BY <1>1, <1>2, <2>1, TargetKeeps
<1>4. Target(bs, Pairs, job.dt)[0][l] = bs[l[1]].v[l[2]]
  BY <1>1, TargetIs
<1> QED
  BY <1>3, <1>4

LEMMA StartInv ==
  ASSUME Ctx, job' = job, committed' \in Banks, work' = committed', StepStart
  PROVE  StepInv'
<1>1. /\ cyc' = 0 /\ pipe' = {} /\ captured' = [k \in 1..MaxPairs |-> {}]
      /\ issued' = {} /\ busy' = {} /\ mulIssued' = {} /\ addIssued' = {}
      /\ product' = [l \in Lanes |-> <<>>] /\ retired' = 0
  BY DEF StepStart
<1>2. WorkShape'
  <2>. DEFINE bs == committed'
  <2>1. /\ bs = [b \in 1..Bodies |-> [r |-> bs[b].r, v |-> bs[b].v, m |-> bs[b].m]]
        /\ \A b \in 1..Bodies : bs[b].r = [c \in 1..3 |-> bs[b].r[c]] /\ bs[b].v = [c \in 1..3 |-> bs[b].v[c]]
    <3>1. bs \in Banks
      OBVIOUS
    <3> HIDE DEF bs
    <3> QED
      BY <3>1, BankShape
  <2> QED
    BY <2>1 DEF WorkShape
<1>3. PipeSane'
  BY <1>1 DEF PipeSane, Parked
<1>4. FrontSane'
  BY <1>1 DEF FrontSane
<1>5. FrontFlow'
  <2>1. \A r \in Rows : ~ (r.cycle < 0)
    BY RowIs
  <2> QED
    BY <1>1, <2>1 DEF FrontFlow
<1>6. Captures'
  BY <1>1 DEF Captures
<1>7. InOrder'
  BY <1>1 DEF InOrder
<1>8. AccFlow'
  <2>1. ASSUME NEW l \in Lanes, NEW e \in 0..AllOps, UptoIn({}, l, e)
        PROVE  work'[l[1]].v[l[2]] = Goal'[e][l]
    BY <2>1, StartLaws, UntouchedLane
  <2>2. \A l, e : Upto(l, e)' <=> UptoIn({}, l, e)
    BY <1>1, StartLaws DEF Upto, UptoIn
  <2> QED
    BY <1>1, <2>1, <2>2, StartLaws DEF AccFlow
<1>9. MulFlow'
  BY <1>1 DEF MulFlow
<1>10. AddFlow'
  BY <1>1 DEF AddFlow
<1>11. Counted'
  <2>1. Behind(pipe') = {}
    BY <1>1 DEF Behind
  <2>2. IsFiniteSet({}) /\ Cardinality({}) = 0
    BY FS_EmptySet
  <2>3. IsFiniteSet(Behind(pipe')) /\ Cardinality(Behind(pipe')) = 0
    BY <2>1, <2>2
  <2>4. Cardinality(issued') = 0 /\ Cardinality(mulIssued') = 0 /\ Cardinality(addIssued') = 0 /\ retired' = 0
    BY <1>1, <2>2
  <2> QED
    BY <2>3, <2>4 DEF Counted, Behind
<1> QED
  BY <1>2, <1>3, <1>4, <1>5, <1>6, <1>7, <1>8, <1>9, <1>10, <1>11 DEF StepInv

\* When everything is counted nothing is in flight, and the working bank is
\* one step of the model ahead.
LEMMA NothingBehind ==
  ASSUME Ctx, StepInv, AllDone
  PROVE  Behind(pipe) = {} /\ mulIssued = Lanes
<1>1. /\ Unissued = {} /\ addIssued = Lanes /\ retired = 6 * Len(Pairs) + 2 * Cardinality(Lanes)
  BY DEF AllDone
<1>2. issued = AccOps
  BY <1>1 DEF StepInv, InOrder, Unissued
<1>3. mulIssued = Lanes
  BY <1>1 DEF StepInv, MulFlow, AddFlow
<1>4. Cardinality(issued) = AllOps /\ Cardinality(mulIssued) = Cardinality(Lanes) /\ Cardinality(addIssued) = Cardinality(Lanes)
      /\ retired = AllOps + 2 * Cardinality(Lanes) /\ AllOps \in Nat /\ Cardinality(Lanes) \in Nat
  <2>1. Cardinality(Lanes) \in Nat
    BY LanesFinite
  <2> QED
    BY <1>1, <1>2, <1>3, <2>1, OpsFinite, CtxIs DEF AllOps
<1>5. IsFiniteSet(Behind(pipe)) /\ retired + Cardinality(Behind(pipe)) <= Cardinality(issued) + Cardinality(mulIssued) + Cardinality(addIssued)
  BY DEF StepInv, Counted
<1>6. Cardinality(Behind(pipe)) \in Nat
  BY <1>5, FS_CardinalityType
<1>7. Cardinality(Behind(pipe)) = 0
  BY <1>4, <1>5, <1>6
<1> QED
  BY <1>3, <1>5, <1>7, FS_EmptySet

LEMMA StepDone ==
  ASSUME Ctx, StepInv, Edge, AllDone
  PROVE  work' = OneStep(committed, Pairs, job.dt)
<1>. DEFINE new == OneStep(committed, Pairs, job.dt)
            goal == Target(committed, Pairs, job.dt)[6 * Len(Pairs)]
<1>1. /\ new \in Banks
      /\ \A b \in 1..Bodies :
           /\ new[b].m = committed[b].m
           /\ \A c \in 1..3 : /\ new[b].v[c] = goal[<<b, c>>]
                              /\ new[b].r[c] = FAdd(committed[b].r[c], FMul(job.dt, goal[<<b, c>>]))
  <2>1. Pairs \in PairLists /\ job.dt \in Float /\ committed \in Banks
    BY CtxIs
  <2>2. new = OneStep(committed, Pairs, job.dt) /\ goal = Target(committed, Pairs, job.dt)[6 * Len(Pairs)]
    OBVIOUS
  <2> HIDE DEF new, goal
  <2> QED
    BY <2>1, <2>2, OneStepIs
<1>2. ASSUME NEW l \in Lanes
      PROVE  work'[l[1]].v[l[2]] = Goal[AllOps][l] /\ work'[l[1]].r[l[2]] = MovedTo(l)
  <2>1. \A p \in pipe : p.what # "acc" /\ p.what # "add"
    BY NothingBehind DEF Behind
  <2>2. ~ Comes("acc", l) /\ ~ Comes("add", l)
    BY <2>1 DEF Comes, Retiring
  <2>3. Brings("acc", l, 0) /\ Brings("add", l, 0)
    BY <2>1 DEF Brings, Retiring
  <2>4. \A old : Arriving("acc", l, old) = old /\ Arriving("add", l, old) = old
    BY <2>2, <2>3, ArrivingIs
  <2>5. work'[l[1]].v[l[2]] = work[l[1]].v[l[2]] /\ work'[l[1]].r[l[2]] = work[l[1]].r[l[2]]
    BY <2>4, WorkNext DEF StepInv
  <2>6. l \in mulIssued /\ l \in addIssued
    BY NothingBehind DEF AllDone
  <2>7. work[l[1]].v[l[2]] = Goal[AllOps][l]
    BY <2>6, SettledLane DEF StepInv, MulFlow
  <2>8. work[l[1]].r[l[2]] = MovedTo(l)
    BY <2>1, <2>6 DEF StepInv, AddFlow
  <2> QED
    BY <2>5, <2>7, <2>8
<1> HIDE DEF new
<1>3. ASSUME NEW b \in 1..Bodies, NEW c \in 1..3
      PROVE  work'[b].v[c] = new[b].v[c] /\ work'[b].r[c] = new[b].r[c]
  <2>. DEFINE l == <<b, c>>
  <2>1. l \in Lanes /\ l[1] = b /\ l[2] = c
    BY DEF Lanes
  <2>2. Goal[AllOps][l] = goal[l]
    BY DEF Goal, AllOps
  <2>3. MovedTo(l) = FAdd(committed[b].r[c], FMul(job.dt, goal[l]))
    BY <2>1, <2>2 DEF MovedTo, Drifted
  <2>4. work'[l[1]].v[l[2]] = Goal[AllOps][l] /\ work'[l[1]].r[l[2]] = MovedTo(l)
    BY <1>2, <2>1
  <2>5. new[b].v[c] = goal[l] /\ new[b].r[c] = FAdd(committed[b].r[c], FMul(job.dt, goal[l]))
    BY <1>1
  <2> HIDE DEF l, goal
  <2> QED
    BY <2>1, <2>2, <2>3, <2>4, <2>5
<1>4. WorkShape'
  BY WorkNext DEF StepInv
<1>5. ASSUME NEW b \in 1..Bodies
      PROVE  work'[b].r = new[b].r /\ work'[b].v = new[b].v
  <2>1. new[b].r \in Vec /\ new[b].v \in Vec
    BY <1>1, BankIs
  <2>2. \A c \in 1..3 : new[b].r[c] \in Float /\ new[b].v[c] \in Float
    BY <2>1, TripleIs
  <2>3. work'[b].r = [c \in 1..3 |-> work'[b].r[c]] /\ work'[b].v = [c \in 1..3 |-> work'[b].v[c]]
    BY <1>4 DEF WorkShape
  <2>4. work'[b].r \in Vec /\ work'[b].v \in Vec
    <3>1. \A c \in 1..3 : work'[b].r[c] \in Float /\ work'[b].v[c] \in Float
      BY <1>3, <2>2
    <3> QED
      BY <2>3, <3>1, TripleIs
  <2> QED
    BY <1>3, <2>1, <2>4, TripleIs
<1>6. committed' = committed
  BY DEF Edge
<1>7. work' = [b \in 1..Bodies |-> [r |-> new[b].r, v |-> new[b].v, m |-> new[b].m]]
  BY <1>1, <1>4, <1>5, <1>6 DEF WorkShape
<1>8. new = [b \in 1..Bodies |-> [r |-> new[b].r, v |-> new[b].v, m |-> new[b].m]]
  BY <1>1, BankShape
<1>9. work' = new
  BY <1>7, <1>8
<1> QED
  BY <1>9 DEF new

-----------------------------------------------------------------------------
(* The invocation.                                                           *)

GrapeInv ==
  /\ job \in Jobs /\ steps \in Nat /\ committed \in Banks
  /\ CommittedIsExact
  /\ state = "LATCH" => work = committed
  /\ state = "RUN" => StepInv
  /\ state = "COMMIT" => work = OneStep(committed, Pairs, job.dt)

LEMMA StepInvStays == StepInv /\ UNCHANGED grapeVars => StepInv'
<1> SUFFICES ASSUME StepInv, UNCHANGED grapeVars PROVE StepInv'
  OBVIOUS
<1>1. /\ job' = job /\ cyc' = cyc /\ pipe' = pipe /\ scratch' = scratch /\ captured' = captured
      /\ issued' = issued /\ busy' = busy /\ mulIssued' = mulIssued /\ product' = product
      /\ addIssued' = addIssued /\ retired' = retired /\ work' = work /\ committed' = committed
  BY DEF grapeVars, stepVars
<1>2. Pairs' = Pairs /\ AccOps' = AccOps /\ AllOps' = AllOps /\ Goal' = Goal
  BY <1>1 DEF Pairs, AccOps, AllOps, Goal
<1>3. \A e : AccLane(e)' = AccLane(e) /\ ForceReady(e)' = ForceReady(e)
  BY <1>1, <1>2 DEF AccLane, ForceReady
<1>4. \A l : Drifted(l)' = Drifted(l)
  BY <1>1, <1>2 DEF Drifted
<1>5. \A l : MovedTo(l)' = MovedTo(l)
  BY <1>1, <1>4 DEF MovedTo
<1>6. \A k, g : Right(k, g)' = Right(k, g)
  BY <1>1, <1>2 DEF Right
<1>7. \A l, e : Upto(l, e)' <=> Upto(l, e)
  BY <1>1, <1>2, <1>3 DEF Upto, UptoIn
<1>8. LanePending' = LanePending
  BY <1>1, <1>2, <1>3 DEF LanePending, Unissued
<1>9. WorkShape' /\ PipeSane'
  BY <1>1 DEF StepInv, WorkShape, PipeSane
<1>10. FrontSane'
  BY <1>1, <1>2, <1>6 DEF StepInv, FrontSane
<1>11. FrontFlow' /\ Captures'
  BY <1>1, <1>2, <1>6 DEF StepInv, FrontFlow, InFlight, Captures
<1>12. InOrder'
  BY <1>1, <1>2, <1>3 DEF StepInv, InOrder
<1>13. AccFlow'
  BY <1>1, <1>2, <1>7 DEF StepInv, AccFlow
<1>14. MulFlow'
  BY <1>1, <1>4, <1>8 DEF StepInv, MulFlow
<1>15. AddFlow'
  BY <1>1, <1>5 DEF StepInv, AddFlow
<1>16. Counted'
  BY <1>1 DEF StepInv, Counted, Behind
<1> QED
  BY <1>9, <1>10, <1>11, <1>12, <1>13, <1>14, <1>15, <1>16 DEF StepInv

LEMMA GrapeInvInit == GrapeInit => GrapeInv
<1> SUFFICES ASSUME GrapeInit PROVE GrapeInv
  OBVIOUS
<1>1. job \in Jobs /\ steps = 0 /\ committed = job.bodies /\ work = job.bodies /\ state = "LATCH"
  BY DEF GrapeInit
<1>2. committed \in Banks
  BY <1>1, JobsAssumption DEF Banks
<1>3. Emulation(job.bodies, job.pairs, job.dt, 0) = job.bodies
  BY EmulationStep
<1> QED
  BY <1>1, <1>2, <1>3 DEF GrapeInv, CommittedIsExact

LEMMA GrapeInvNext == GrapeInv /\ [Clock]_grapeVars => GrapeInv'
<1> SUFFICES ASSUME GrapeInv, [Clock]_grapeVars PROVE GrapeInv'
  OBVIOUS
<1>1. Ctx /\ steps \in Nat
  BY DEF GrapeInv, Ctx
<1>2. CASE AfterLatch
  <2>1. job' = job /\ steps' = steps /\ work' = work /\ committed' = committed /\ work = committed
    BY <1>2 DEF AfterLatch, GrapeInv
  <2>2. state' = "DONE" \/ (state' = "RUN" /\ StepStart)
    BY <1>2 DEF AfterLatch
  <2>3. state' = "RUN" => StepInv'
    BY <1>1, <2>1, <2>2, StartInv DEF Ctx
  <2>4. CommittedIsExact'
    BY <2>1 DEF GrapeInv, CommittedIsExact
  <2> QED
    BY <1>1, <2>1, <2>2, <2>3, <2>4 DEF GrapeInv, Ctx
<1>3. CASE Run
  <2>1. Edge /\ job' = job /\ steps' = steps /\ committed' = committed /\ StepInv
    BY <1>3 DEF Run, Edge, InStep, GrapeInv
  <2>2. state' = IF AllDone THEN "COMMIT" ELSE "RUN"
    BY <1>3 DEF Run
  <2>3. StepInv'
    BY <1>1, <2>1, StepInvNext
  <2>4. Pairs' = Pairs
    BY <2>1 DEF Pairs
  <2>5. AllDone => work' = OneStep(committed', Pairs', job'.dt)
    BY <1>1, <2>1, <2>4, StepDone
  <2>6. CommittedIsExact'
    BY <2>1 DEF GrapeInv, CommittedIsExact
  <2> QED
    BY <1>1, <2>1, <2>2, <2>3, <2>5, <2>6 DEF GrapeInv, Ctx
<1>4. CASE Commit
  <2>1. job' = job /\ steps' = steps + 1 /\ committed' = work /\ work' = work
    BY <1>4 DEF Commit
  <2>2. work = OneStep(committed, Pairs, job.dt)
    BY <1>4 DEF Commit, GrapeInv
  <2>3. committed' \in Banks
    BY <1>1, <2>1, <2>2, CtxIs, OneStepIs
  <2>4. state' \in {"DONE", "ABORT"} \/ (state' = "RUN" /\ StepStart)
    BY <1>4 DEF Commit
  <2>5. state' = "RUN" => StepInv'
    BY <1>1, <2>1, <2>3, <2>4, StartInv
  <2>6. CommittedIsExact'
    <3>1. committed = Emulation(job.bodies, job.pairs, job.dt, steps)
      BY DEF GrapeInv, CommittedIsExact
    <3>2. Emulation(job.bodies, job.pairs, job.dt, steps + 1) = OneStep(committed, job.pairs, job.dt)
      BY <1>1, <3>1, EmulationStep
    <3> QED
      BY <2>1, <2>2, <3>2 DEF CommittedIsExact, Pairs
  <2> QED
    BY <1>1, <2>1, <2>3, <2>4, <2>5, <2>6 DEF GrapeInv, Ctx
<1>5. CASE EndInvocation
  <2>1. state' = "END" /\ job' = job /\ steps' = steps /\ committed' = committed
    BY <1>5 DEF EndInvocation
  <2> QED
    BY <2>1 DEF GrapeInv, CommittedIsExact
<1>6. CASE UNCHANGED grapeVars
  <2>1. state' = state /\ job' = job /\ steps' = steps /\ committed' = committed /\ work' = work
    BY <1>6 DEF grapeVars
  <2>2. StepInv => StepInv'
    BY <1>6, StepInvStays
  <2> QED
    BY <2>1, <2>2 DEF GrapeInv, CommittedIsExact, Pairs
<1> QED
  BY <1>2, <1>3, <1>4, <1>5, <1>6 DEF Clock

\* The bank that the bus reads (grape_body_rf.sv) holds at every moment what the
\* emulation model gives for the steps counted so far: for every number of
\* bodies, every latency, the reservation table made for them, every job the
\* doorbell latches and an ABORT in any cycle.
THEOREM GrapeExact == GrapeSpec => []CommittedIsExact
<1>1. GrapeInit => GrapeInv
  BY GrapeInvInit
<1>2. GrapeInv /\ [Clock]_grapeVars => GrapeInv'
  BY GrapeInvNext
<1>3. GrapeInv => CommittedIsExact
  BY DEF GrapeInv
<1> QED
  BY <1>1, <1>2, <1>3, PTL DEF GrapeSpec
=============================================================================
