---------------------------- MODULE AntivirusProofs ----------------------------
(***************************************************************************)
(* Proofs about Antivirus, for any number of processes, scans, contents,   *)
(* lost messages and deaths.                                               *)
(***************************************************************************)
EXTENDS Antivirus, FiniteSetTheorems, SequenceTheorems, TLAPS

-----------------------------------------------------------------------------
(* Type correctness.  That control messages do not pile up takes more than  *)
(* types: a process that suspends has been idle since its last message has  *)
(* arrived, and does not ask again before it has been used.                 *)

Both    == Append(<<"suspend">>, "wake")
Pending == {<<>>, <<"wake">>, <<"suspend">>, Both}
Pcs     == {"idle", "alive", "wait", "scanning", "hung"}

CtlType ==
    /\ state \in [Processes -> States]
    /\ idle \in [Processes -> BOOLEAN] /\ polling \in [Processes -> BOOLEAN]
    /\ bus \in [Processes -> Pending]

ScanType == scan \in [Scans -> [pc : Pcs, home : Processes, file : Files]]

CountType == active \in [Processes -> Nat] /\ faults \in 0..MaxFaults /\ crashes \in 0..MaxCrashes

RestType ==
    /\ daemon \in {"down", "booting", "up"}
    /\ repute \in [Files -> {"unknown", "clean", "infected"}]
    /\ passed \subseteq Files /\ missed \subseteq Infected

\* An idle process has nothing on its way but the suspend that has made it
\* standby, and no scan that is about to make it ready.
Resting ==
    \A p \in Processes : idle[p] =>
        /\ bus[p] = <<>> \/ (bus[p] = <<"suspend">> /\ state[p] = "standby")
        /\ ~polling[p]
        /\ \A s \in Scans : scan[s].home = p => scan[s].pc \in {"idle", "scanning", "hung"}

Typed == CtlType /\ ScanType /\ CountType /\ RestType /\ Resting

LEMMA AnyOnes == AnyProcess \in Processes /\ AnyFile \in Files
  BY AntivirusConstantsOK DEF AntivirusConstantsOK, AnyProcess, AnyFile

LEMMA NoScanTyped == NoScan \in [pc : {"idle"}, home : Processes, file : Files] /\ NoScan.pc = "idle"
  BY AnyOnes DEF NoScan

LEMMA ShortSequences ==
    /\ \A a : /\ Tail(<<a>>) = <<>> /\ Append(<<>>, a) = <<a>>
             /\ <<a>> # <<>> /\ Len(<<a>>) = 1 /\ Last(<<a>>) = a
    /\ Len(<<>>) = 0
    /\ Both \in Seq({"wake", "suspend"}) /\ Both # <<>> /\ Len(Both) = 2 /\ Last(Both) = "wake"
    /\ Tail(Both) = <<"wake">>
  <1>1. \A a : Tail(<<a>>) = <<>>
    OBVIOUS
  <1>2. \A a : Append(<<>>, a) = <<a>>
    OBVIOUS
  <1>3. \A a : <<a>> # <<>> /\ Len(<<a>>) = 1 /\ Len(<<>>) = 0
    OBVIOUS
  <1>4. \A a : Last(<<a>>) = a
    BY DEF Last
  <1> DEFINE M == {"wake", "suspend"}
  <1>5. <<"suspend">> \in Seq(M) /\ "wake" \in M
    OBVIOUS
  <1>6. /\ Both \in Seq(M) /\ Both # <<>> /\ Len(Both) = Len(<<"suspend">>) + 1
        /\ Both[Len(<<"suspend">>) + 1] = "wake"
    BY <1>5, AppendProperties, Zenon DEF Both
  <1>7. Len(Both) = 2 /\ Both[2] = "wake"
    BY <1>3, <1>6
  <1>8. Last(Both) = "wake"
    BY <1>7 DEF Last
  <1>9. Tail(Both) = <<"wake">>
    <2>1. Tail(Both) = Append(Tail(<<"suspend">>), "wake")
      BY <1>5, <1>3, HeadTailAppend DEF Both
    <2> QED
      BY <2>1, <1>1, <1>2
  <1> QED
    BY <1>1, <1>2, <1>3, <1>4, <1>6, <1>7, <1>8, <1>9, Zenon

LEMMA TwoAndOne == \A n, m : n = 2 /\ m = 1 => n <= 2 /\ m < n
  OBVIOUS

LEMMA PendingFacts ==
    ASSUME NEW b \in Pending
    PROVE  /\ b \in Seq({"wake", "suspend"}) /\ Len(b) <= 2
           /\ b # <<>> => Tail(b) \in Pending
           /\ b = <<"suspend">> => Tail(b) = <<>>
           /\ b # <<>> => Len(Tail(b)) < Len(b)
  <1>1. CASE b = <<>>
    BY <1>1, ShortSequences
  <1>2. CASE b = <<"wake">>
    BY <1>2, ShortSequences DEF Pending
  <1>3. CASE b = <<"suspend">>
    BY <1>3, ShortSequences DEF Pending
  <1>4. CASE b = Both
    <2>1. Both # <<"suspend">>
      BY ShortSequences
    <2>2. Tail(Both) \in Pending
      BY ShortSequences DEF Pending
    <2>3. Both \in Seq({"wake", "suspend"}) /\ Len(Both) = 2 /\ Len(Tail(Both)) = 1
      BY ShortSequences, Zenon
    <2>4. Len(Both) <= 2 /\ Len(Tail(Both)) < Len(Both)
      BY <2>3, TwoAndOne, Zenon
    <2> QED
      BY <1>4, <2>1, <2>2, <2>3, <2>4, Zenon
  <1> QED
    BY <1>1, <1>2, <1>3, <1>4 DEF Pending

Published(b, m) == IF b # <<>> /\ Last(b) = m THEN b ELSE Append(b, m)

LEMMA WakePublished ==
    ASSUME NEW b \in Pending
    PROVE  /\ Published(b, "wake") \in Pending
           /\ Len(Published(b, "wake")) > Len(b) => Last(Published(b, "wake")) = "wake"
  <1>1. Published(<<>>, "wake") = <<"wake">>
    BY ShortSequences DEF Published
  <1>2. Published(<<"wake">>, "wake") = <<"wake">>
    BY ShortSequences DEF Published
  <1>3. Published(<<"suspend">>, "wake") = Both
    BY ShortSequences DEF Published, Both
  <1>4. Published(Both, "wake") = Both
    BY ShortSequences DEF Published
  <1>5. Last(<<"wake">>) = "wake" /\ Last(Both) = "wake"
    BY ShortSequences
  <1> QED
    BY <1>1, <1>2, <1>3, <1>4, <1>5 DEF Pending

LEMMA SuspendPublished ==
    /\ Published(<<>>, "suspend") = <<"suspend">>
    /\ Published(<<"suspend">>, "suspend") = <<"suspend">>
  BY ShortSequences DEF Published

LEMMA PublishPublishes ==
    ASSUME CtlType, NEW p \in Processes, NEW m, Publish(p, m)
    PROVE  \A q \in Processes : bus'[q] = IF q = p THEN Published(bus[p], m) ELSE bus[q]
  BY DEF CtlType, Publish, Published

LEMMA TypesInGroups == Typed => TypeOK
  BY PendingFacts DEF Typed, TypeOK, CtlType, ScanType, CountType, RestType, Pcs

LEMMA AntivirusTypedInit == Init => Typed
  <1> SUFFICES ASSUME Init
               PROVE  Typed
    OBVIOUS
  <1>1. CtlType /\ Resting
    BY DEF Init, CtlType, Resting, States, Pending
  <1>2. ScanType
    BY NoScanTyped DEF Init, ScanType, Pcs
  <1>3. CountType /\ RestType
    BY AntivirusConstantsOK DEF Init, CountType, RestType, AntivirusConstantsOK
  <1> QED
    BY <1>1, <1>2, <1>3 DEF Typed

\* A warm-up leaves the controller in use.
LEMMA WarmTyped ==
    ASSUME CtlType, NEW p \in Processes, Warm(p)
    PROVE  /\ CtlType' /\ ~idle'[p]
           /\ \A q \in Processes : q # p => /\ idle'[q] = idle[q] /\ bus'[q] = bus[q]
                                           /\ state'[q] = state[q] /\ polling'[q] = polling[q]
           /\ Len(bus'[p]) > Len(bus[p]) => Last(bus'[p]) = "wake"
  <1>1. /\ state' \in [Processes -> States] /\ idle' \in [Processes -> BOOLEAN]
        /\ polling' \in [Processes -> BOOLEAN] /\ ~idle'[p]
        /\ \A q \in Processes : q # p => idle'[q] = idle[q] /\ state'[q] = state[q] /\ polling'[q] = polling[q]
    BY DEF CtlType, Warm, States
  <1>2. CASE UNCHANGED bus
    BY <1>1, <1>2, PendingFacts DEF CtlType
  <1>3. CASE Publish(p, "wake")
    <2>1. bus[p] \in Pending
      BY DEF CtlType
    <2>2. \A q \in Processes : bus'[q] = IF q = p THEN Published(bus[p], "wake") ELSE bus[q]
      BY <1>3, PublishPublishes
    <2>3. bus' = [q \in Processes |-> bus'[q]]
      BY <1>3 DEF Publish, CtlType
    <2> QED
      BY <1>1, <2>1, <2>2, <2>3, WakePublished DEF CtlType
  <1> QED
    BY <1>2, <1>3 DEF Warm

LEMMA AtOne ==
    ASSUME ScanType, NEW s \in Scans, NEW pc \in Pcs \ {"idle"}, At(s, pc)
    PROVE  /\ ScanType'
           /\ scan'[s].pc = pc /\ scan'[s].home = scan[s].home /\ scan'[s].file = scan[s].file
           /\ \A t \in Scans : t # s => scan'[t] = scan[t]
  BY DEF ScanType, At

LEMMA Left ==
    ASSUME Typed, NEW s \in Scans, Leave(s)
    PROVE  /\ ScanType' /\ CtlType' /\ active' \in [Processes -> Nat]
           /\ scan'[s].pc = "idle" /\ ~idle'[Home(s)]
           /\ \A t \in Scans : t # s => scan'[t] = scan[t]
           /\ \A q \in Processes : q # Home(s) => idle'[q] = idle[q]
           /\ UNCHANGED <<state, polling, bus>>
  <1>1. scan' = [scan EXCEPT ![s] = NoScan] /\ Home(s) \in Processes
    BY DEF Leave, Home, Typed, ScanType
  <1>2. ScanType' /\ scan'[s].pc = "idle" /\ \A t \in Scans : t # s => scan'[t] = scan[t]
    BY <1>1, NoScanTyped DEF ScanType, Typed, Pcs
  <1>3. active' \in [Processes -> Nat]
    BY <1>1 DEF Leave, Typed, CountType
  <1>4. /\ CtlType' /\ ~idle'[Home(s)] /\ UNCHANGED <<state, polling, bus>>
        /\ \A q \in Processes : q # Home(s) => idle'[q] = idle[q]
    BY <1>1 DEF Leave, Typed, CtlType
  <1> QED
    BY <1>2, <1>3, <1>4

\* What a process in use does leaves the others as they are.
LEMMA RestingKept ==
    ASSUME Resting, NEW p \in Processes, ~idle'[p],
           \A q \in Processes : q # p => /\ idle'[q] = idle[q] /\ bus'[q] = bus[q]
                                         /\ state'[q] = state[q] /\ polling'[q] = polling[q],
           \A s \in Scans : \/ scan'[s] = scan[s]
                            \/ scan'[s].pc \in {"idle", "scanning", "hung"}
                            \/ scan'[s].home = p
    PROVE  Resting'
  BY DEF Resting

LEMMA AntivirusControllersTyped ==
    ASSUME Typed, NEW p \in Processes,
           Announce(p) \/ Poll(p) \/ GoIdle(p) \/ EvaluateIdle(p) \/ Deliver(p) \/ Lose(p) \/ Crash(p)
    PROVE  Typed'
  <1> USE DEF Typed
  <1>1. CASE Announce(p)
    <2>1. CtlType' /\ Resting'
      BY <1>1, WarmTyped, RestingKept DEF Announce
    <2> QED
      BY <1>1, <2>1 DEF filesVars, Announce, ScanType, CountType, RestType, envVars
  <1>2. CASE Poll(p)
    <2>1. CtlType' /\ ~idle'[p]
      BY <1>2 DEF Poll, CtlType, Resting, States
    <2>2. Resting'
      BY <1>2, <2>1, RestingKept DEF Poll, CtlType
    <2> QED
      BY <1>2, <2>1, <2>2 DEF filesVars, Poll, ScanType, CountType, RestType, envVars
  <1>3. CASE GoIdle(p)
    <2>1. CtlType' /\ Resting'
      BY <1>3 DEF GoIdle, CtlType, Resting
    <2> QED
      BY <1>3, <2>1 DEF filesVars, GoIdle, ScanType, CountType, RestType, envVars
  <1>4. CASE EvaluateIdle(p)
    <2>1. bus[p] = <<>> /\ Published(bus[p], "suspend") = <<"suspend">>
      BY <1>4, SuspendPublished DEF EvaluateIdle, Resting
    <2>2. \A q \in Processes : bus'[q] = IF q = p THEN <<"suspend">> ELSE bus[q]
      BY <1>4, <2>1, PublishPublishes DEF EvaluateIdle, Suspend
    <2>3. bus' = [q \in Processes |-> bus'[q]]
      BY <1>4 DEF EvaluateIdle, Suspend, Publish, CtlType
    <2>4. bus' \in [Processes -> Pending]
      BY <2>2, <2>3 DEF CtlType, Pending
    <2>5. CtlType'
      BY <1>4, <2>4 DEF EvaluateIdle, Suspend, CtlType, States
    <2>6. Resting'
      BY <1>4, <2>2 DEF EvaluateIdle, Suspend, CtlType, Resting
    <2> QED
      BY <1>4, <2>5, <2>6 DEF filesVars, EvaluateIdle, Suspend, ScanType, CountType, RestType, envVars
  <1>5. CASE Deliver(p) \/ Lose(p)
    <2>1. bus' = [bus EXCEPT ![p] = Tail(@)] /\ bus[p] # <<>>
          /\ UNCHANGED <<state, active, idle, polling, scan, filesVars, crashes>>
      BY <1>5 DEF Deliver, Lose, envVars
    <2>2. bus[p] \in Pending /\ Tail(bus[p]) \in Pending /\ (bus[p] = <<"suspend">> => Tail(bus[p]) = <<>>)
      BY <2>1, PendingFacts DEF CtlType
    <2>3. CtlType'
      BY <2>1, <2>2 DEF CtlType
    <2>4. Resting'
      BY <2>1, <2>2 DEF CtlType, Resting
    <2>5. daemon' \in {"down", "booting", "up"}
      <3>1. CASE Lose(p)
        BY <3>1 DEF Lose, RestType
      <3>2. CASE Deliver(p)
        <4>1. bus[p] = <<"wake">> \/ bus[p] = <<"suspend">> \/ bus[p] = Both
          BY <2>1, <2>2 DEF Pending
        <4>2. Head(bus[p]) \in {"wake", "suspend"}
          BY <2>1, <2>2, PendingFacts, HeadTailProperties
        <4>3. CASE Head(bus[p]) = "suspend"
          BY <3>2, <4>3, Zenon DEF Deliver
        <4>4. CASE Head(bus[p]) = "wake"
          <5>1. daemon' = IF daemon = "down" THEN "booting" ELSE daemon
            BY <3>2, <4>4, Zenon DEF Deliver
          <5> QED
            BY <5>1 DEF RestType
        <4> QED
          BY <4>2, <4>3, <4>4
      <3> QED
        BY <1>5, <3>1, <3>2
    <2>6. faults' \in 0..MaxFaults
      BY <1>5, AntivirusConstantsOK DEF Deliver, Lose, CountType, envVars, AntivirusConstantsOK
    <2> QED
      BY <2>1, <2>3, <2>4, <2>5, <2>6 DEF filesVars, ScanType, CountType, RestType
  <1>6. CASE Crash(p)
    <2>1. /\ state' = [state EXCEPT ![p] = "standby"] /\ idle' = [idle EXCEPT ![p] = FALSE]
          /\ polling' = [polling EXCEPT ![p] = FALSE] /\ bus' = [bus EXCEPT ![p] = <<>>]
      BY <1>6 DEF Crash
    <2>2. CtlType'
      BY <2>1 DEF CtlType, States, Pending
    <2>3. scan' = [s \in Scans |-> IF Home(s) = p THEN NoScan ELSE scan[s]]
      BY <1>6 DEF Crash
    <2>4. ScanType' /\ \A s \in Scans : scan'[s] = scan[s] \/ scan'[s].pc = "idle"
      BY <2>3, NoScanTyped DEF ScanType, Pcs
    <2>5. Resting'
      BY <2>1, <2>4, RestingKept DEF CtlType
    <2>6. CountType' /\ RestType'
      BY <1>6, AntivirusConstantsOK DEF filesVars, Crash, CountType, RestType, AntivirusConstantsOK
    <2> QED
      BY <2>2, <2>4, <2>5, <2>6
  <1> QED
    BY <1>1, <1>2, <1>3, <1>4, <1>5, <1>6

LEMMA AntivirusScansTyped ==
    ASSUME Typed, NEW s \in Scans,
           Alive(s) \/ Pong(s) \/ Hang(s) \/ GiveUp(s) \/ Verdict(s) \/ ScanError(s)
    PROVE  Typed'
  <1> USE DEF Typed
  <1>1. Home(s) \in Processes /\ scan[s].file \in Files
    BY DEF ScanType, Home
  <1>2. CASE Alive(s)
    <2> DEFINE p == Home(s)
    <2>1. ~idle[p]
      BY <1>1, <1>2 DEF Alive, Resting, Home
    <2>2. CASE At(s, "scanning") /\ UNCHANGED <<state, idle, polling, bus>>
      <3>1. ScanType' /\ \A t \in Scans : scan'[t] = scan[t] \/ scan'[t].pc = "scanning"
        BY <2>2, AtOne DEF Pcs
      <3>2. CtlType'
        BY <2>2 DEF CtlType
      <3>3. Resting'
        BY <2>1, <2>2, <3>1, <1>1, RestingKept
      <3> QED
        BY <1>2, <3>1, <3>2, <3>3 DEF filesVars, Alive, CountType, RestType, envVars
    <2>3. CASE At(s, "wait") /\ Warm(p)
      <3>1. ScanType' /\ \A t \in Scans : scan'[t] = scan[t] \/ scan'[t].home = p
        BY <2>3, AtOne DEF Pcs, Home
      <3>2. CtlType' /\ Resting'
        BY <2>3, <3>1, <1>1, WarmTyped, RestingKept
      <3> QED
        BY <1>2, <3>1, <3>2 DEF filesVars, Alive, CountType, RestType, envVars
    <2> QED
      BY <1>2, <2>2, <2>3 DEF Alive
  <1>3. CASE Pong(s)
    <2> DEFINE p == Home(s)
    <2>1. ~idle[p]
      BY <1>1, <1>3 DEF Pong, Resting, Home
    <2>2. ScanType' /\ \A t \in Scans : scan'[t] = scan[t] \/ scan'[t].pc = "scanning"
      BY <1>3, AtOne DEF Pong, Pcs
    <2>3. CtlType' /\ \A q \in Processes : q # p => state'[q] = state[q]
      BY <1>1, <1>3 DEF Pong, CtlType, States
    <2>4. Resting'
      BY <1>1, <1>3, <2>1, <2>2, <2>3, RestingKept DEF Pong
    <2> QED
      BY <1>3, <2>2, <2>3, <2>4 DEF filesVars, Pong, CountType, RestType, envVars
  <1>4. CASE Hang(s)
    <2> DEFINE p == Home(s)
    <2>1. ~idle[p]
      BY <1>1, <1>4 DEF Hang, Resting, Home
    <2>2. ScanType' /\ \A t \in Scans : scan'[t] = scan[t] \/ scan'[t].pc = "hung"
      BY <1>4, AtOne DEF Hang, Pcs
    <2>3. CtlType' /\ UNCHANGED ctlVars
      BY <1>4 DEF Hang, CtlType, ctlVars
    <2>4. Resting'
      BY <1>1, <2>1, <2>2, <2>3, RestingKept DEF ctlVars
    <2> QED
      BY <1>4, <2>2, <2>3, <2>4 DEF filesVars, Hang, CountType, RestType, envVars, ctlVars
  <1>5. CASE GiveUp(s) \/ Verdict(s) \/ ScanError(s)
    <2>1. Leave(s) /\ UNCHANGED <<daemon, crashes>>
      BY <1>5 DEF GiveUp, Verdict, ScanError, Leave
    <2>2. ScanType' /\ CtlType' /\ active' \in [Processes -> Nat]
      BY <2>1, Left
    <2>3. Resting'
      BY <2>1, <1>1, Left, RestingKept
    <2>4. faults' \in 0..MaxFaults
      BY <1>5, AntivirusConstantsOK DEF GiveUp, Verdict, ScanError, CountType, AntivirusConstantsOK
    <2>5. /\ repute' \in [Files -> {"unknown", "clean", "infected"}]
          /\ passed' \subseteq Files /\ missed' \subseteq Infected
      BY <1>5, <1>1 DEF GiveUp, Verdict, ScanError, RestType, filesVars
    <2> QED
      BY <2>1, <2>2, <2>3, <2>4, <2>5 DEF CountType, RestType
  <1> QED
    BY <1>2, <1>3, <1>4, <1>5

LEMMA Begun ==
    ASSUME Typed, NEW s \in Scans, NEW p \in Processes, NEW f \in Files, Begin(s, p, f)
    PROVE  /\ ScanType'
           /\ scan'[s].pc \in {"alive", "wait"} /\ scan'[s].home = p /\ scan'[s].file = f
           /\ \A t \in Scans : t # s => scan'[t] = scan[t]
  BY DEF Begin, Typed, ScanType, Pcs

LEMMA AntivirusTypedNext == Typed /\ [Next]_vars => Typed'
  <1> SUFFICES ASSUME Typed, [Next]_vars
               PROVE  Typed'
    OBVIOUS
  <1>1. CASE \E p \in Processes :
            Announce(p) \/ Poll(p) \/ GoIdle(p) \/ EvaluateIdle(p) \/ Deliver(p) \/ Lose(p) \/ Crash(p)
    BY <1>1, AntivirusControllersTyped
  <1>2. CASE \E s \in Scans : Proceed(s) \/ Hang(s)
    BY <1>2, AntivirusScansTyped DEF Proceed
  <1>3. ASSUME NEW s \in Scans, NEW p \in Processes, NEW f \in Files, Begin(s, p, f)
        PROVE  Typed'
    <2>1. CtlType' /\ Resting'
      BY <1>3, Begun, WarmTyped, RestingKept DEF Begin, Typed
    <2>2. CountType' /\ RestType'
      BY <1>3, AntivirusConstantsOK DEF filesVars, Begin, Answers, Typed, CountType, RestType, AntivirusConstantsOK
    <2> QED
      BY <1>3, <2>1, <2>2, Begun DEF Typed
  <1>4. CASE Boot \/ (\E f \in Files : Reputed(f)) \/ UNCHANGED vars
    <2>1. UNCHANGED <<ctlVars, scan, envVars>>
      BY <1>4 DEF Boot, Reputed, vars
    <2>2. CtlType' /\ ScanType' /\ CountType' /\ Resting'
      BY <2>1 DEF Typed, CtlType, ScanType, CountType, Resting, ctlVars, envVars
    <2>3. RestType'
      BY <1>4 DEF filesVars, Boot, Reputed, vars, Typed, RestType
    <2> QED
      BY <2>2, <2>3 DEF Typed
  <1> QED
    BY <1>1, <1>2, <1>3, <1>4 DEF Next

\* Every variable has its type, and no more than a suspend and a wake of a
\* process are on their way (clamav-standby.controller.ts).
THEOREM AntivirusTypeCorrect == Spec => []TypeOK
  <1>1. Spec => []Typed
    BY AntivirusTypedInit, AntivirusTypedNext, PTL DEF Spec
  <1> QED
    BY <1>1, TypesInGroups, PTL

-----------------------------------------------------------------------------
(* The count of scans, and what it is for.                                  *)

LEMMA InProgressFinite == \A p : IsFiniteSet(InProgress(p))
  BY AntivirusConstantsOK, FS_Subset DEF AntivirusConstantsOK, InProgress

LEMMA OneMoreOrLess ==
    ASSUME NEW S, IsFiniteSet(S), NEW x
    PROVE  /\ x \notin S => Cardinality(S) + 1 = Cardinality(S \cup {x})
           /\ x \in S => (IF Cardinality(S) = 0 THEN 0 ELSE Cardinality(S) - 1) = Cardinality(S \ {x})
  <1>1. x \notin S => Cardinality(S \cup {x}) = Cardinality(S) + 1
    BY FS_AddElement
  <1>2. x \in S => Cardinality(S \ {x}) = Cardinality(S) - 1 /\ Cardinality(S \ {x}) \in Nat
    BY FS_RemoveElement, FS_CardinalityType
  <1> QED
    BY <1>1, <1>2

\* A scan that begins or ends changes the count of its process.
LEMMA CountsMove ==
    ASSUME Typed, ActiveCountsScans, NEW s \in Scans, NEW p \in Processes,
           \A q \in Processes : q # p => active'[q] = active[q] /\ InProgress(q)' = InProgress(q),
           \/ /\ s \notin InProgress(p) /\ InProgress(p)' = InProgress(p) \cup {s}
              /\ active'[p] = active[p] + 1
           \/ /\ s \in InProgress(p) /\ InProgress(p)' = InProgress(p) \ {s}
              /\ active'[p] = IF active[p] = 0 THEN 0 ELSE active[p] - 1
    PROVE  ActiveCountsScans'
  <1> DEFINE before == InProgress(p)  after == InProgress(p)'
  <1>1. IsFiniteSet(before) /\ active[p] = Cardinality(before) /\ active[p] \in Nat
    BY InProgressFinite DEF ActiveCountsScans, Typed, CountType
  <1>2. active'[p] = Cardinality(after)
    <2>0. \/ s \notin before /\ after = before \cup {s} /\ active'[p] = active[p] + 1
          \/ /\ s \in before /\ after = before \ {s}
             /\ active'[p] = IF active[p] = 0 THEN 0 ELSE active[p] - 1
      OBVIOUS
    <2> HIDE DEF before, after
    <2>1. /\ s \notin before => active[p] + 1 = Cardinality(before \cup {s})
          /\ s \in before
               => (IF active[p] = 0 THEN 0 ELSE active[p] - 1) = Cardinality(before \ {s})
      BY <1>1, OneMoreOrLess, Zenon
    <2> QED
      BY <2>0, <2>1, Zenon
  <1>3. \A q \in Processes : q # p => active'[q] = Cardinality(InProgress(q)')
    BY DEF ActiveCountsScans
  <1> QED
    BY <1>2, <1>3 DEF ActiveCountsScans

LEMMA CountsStay ==
    ASSUME ActiveCountsScans, UNCHANGED active,
           \A s \in Scans : /\ scan'[s].home = scan[s].home
                            /\ scan'[s].pc = "idle" <=> scan[s].pc = "idle"
    PROVE  ActiveCountsScans'
  <1>1. \A p \in Processes : InProgress(p)' = InProgress(p)
    BY DEF InProgress, Home
  <1> QED
    BY <1>1 DEF ActiveCountsScans

LEMMA CountsInit == Init => ActiveCountsScans
  <1> SUFFICES ASSUME Init
               PROVE  ActiveCountsScans
    OBVIOUS
  <1>1. \A p \in Processes : InProgress(p) = {} /\ active[p] = 0
    BY NoScanTyped DEF Init, InProgress
  <1> QED
    BY <1>1, FS_EmptySet DEF ActiveCountsScans

LEMMA CountsNext == Typed /\ ActiveCountsScans /\ [Next]_vars => ActiveCountsScans'
  <1> SUFFICES ASSUME Typed, ActiveCountsScans, [Next]_vars
               PROVE  ActiveCountsScans'
    OBVIOUS
  <1>1. ASSUME UNCHANGED <<active, scan>>
        PROVE  ActiveCountsScans'
    BY <1>1, CountsStay
  <1>2. ASSUME NEW p \in Processes, Crash(p)
        PROVE  ActiveCountsScans'
    <2>1. \A s \in Scans : scan'[s] = IF Home(s) = p THEN NoScan ELSE scan[s]
      BY <1>2 DEF Crash
    <2>2. InProgress(p)' = {}
      BY <2>1, NoScanTyped DEF InProgress, Home
    <2>3. active' = [active EXCEPT ![p] = 0]
      BY <1>2 DEF Crash
    <2>4. \A q \in Processes : q # p => InProgress(q)' = InProgress(q)
      BY <2>1, NoScanTyped DEF InProgress, Home
    <2>5. active'[p] = 0 /\ \A q \in Processes : q # p => active'[q] = active[q]
      BY <2>3 DEF Typed, CountType
    <2> QED
      BY <2>2, <2>4, <2>5, FS_EmptySet DEF ActiveCountsScans
  <1>3. ASSUME NEW s \in Scans, NEW p \in Processes, NEW f \in Files, Begin(s, p, f)
        PROVE  ActiveCountsScans'
    <2>1. /\ scan[s].pc = "idle" /\ scan'[s].pc # "idle" /\ scan'[s].home = p
          /\ \A t \in Scans : t # s => scan'[t] = scan[t]
      BY <1>3, Begun DEF Begin
    <2>2. s \notin InProgress(p) /\ InProgress(p)' = InProgress(p) \cup {s}
      BY <2>1 DEF InProgress, Home
    <2>3. \A q \in Processes : q # p => InProgress(q)' = InProgress(q)
      BY <2>1 DEF InProgress, Home
    <2>4. /\ active'[p] = active[p] + 1
          /\ \A q \in Processes : q # p => active'[q] = active[q]
      BY <1>3 DEF Begin, Typed, CountType
    <2> QED
      BY <2>2, <2>3, <2>4, CountsMove
  <1>4. ASSUME NEW s \in Scans, Alive(s) \/ Pong(s) \/ Hang(s)
        PROVE  ActiveCountsScans'
    <2>1. \A t \in Scans : /\ scan'[t].home = scan[t].home
                           /\ scan'[t].pc = "idle" <=> scan[t].pc = "idle"
      BY <1>4, AtOne DEF Alive, Pong, Hang, Typed, Pcs
    <2> QED
      BY <1>4, <2>1, CountsStay DEF Alive, Pong, Hang, ctlVars
  <1>5. ASSUME NEW s \in Scans, GiveUp(s) \/ Verdict(s) \/ ScanError(s)
        PROVE  ActiveCountsScans'
    <2> PICK p \in Processes : p = Home(s)
      BY DEF Typed, ScanType, Home
    <2>1. Leave(s) /\ scan[s].pc # "idle"
      BY <1>5 DEF GiveUp, Verdict, ScanError
    <2>2. scan'[s].pc = "idle" /\ \A t \in Scans : t # s => scan'[t] = scan[t]
      BY <2>1, Left
    <2>3. s \in InProgress(p) /\ InProgress(p)' = InProgress(p) \ {s}
      BY <2>1, <2>2 DEF InProgress, Home
    <2>4. \A q \in Processes : q # p => InProgress(q)' = InProgress(q)
      BY <2>1, <2>2 DEF InProgress, Home
    <2>5. /\ active'[p] = IF active[p] = 0 THEN 0 ELSE active[p] - 1
          /\ \A q \in Processes : q # p => active'[q] = active[q]
      BY <2>1 DEF Leave, Typed, CountType
    <2> QED
      BY <2>1, <2>3, <2>4, <2>5, CountsMove
  <1>6. CASE \E p \in Processes :
            Announce(p) \/ Poll(p) \/ GoIdle(p) \/ EvaluateIdle(p) \/ Deliver(p) \/ Lose(p)
    BY <1>1, <1>6 DEF Announce, Poll, GoIdle, EvaluateIdle, Suspend, Deliver, Lose
  <1>7. CASE Boot \/ (\E f \in Files : Reputed(f)) \/ UNCHANGED vars
    BY <1>1, <1>7 DEF Boot, Reputed, vars, ctlVars
  <1> QED
    BY <1>2, <1>3, <1>4, <1>5, <1>6, <1>7 DEF Next, Proceed

LEMMA CountsAlways == Spec => [](Typed /\ ActiveCountsScans)
  BY AntivirusTypedInit, AntivirusTypedNext, CountsInit, CountsNext, PTL DEF Spec

\* activeScans counts the scans in progress, whichever way each of them ends
\* (clamav.ts scanBufferForVirus).
THEOREM ScansAreCounted == Spec => []ActiveCountsScans
  BY CountsAlways, PTL

Spares(p) == Len(bus'[p]) > Len(bus[p]) /\ Last(bus'[p]) = "suspend" => InProgress(p) = {}

LEMMA NotLonger ==
    ASSUME NEW b, NEW c, Len(b) \in Nat, (Len(c) < Len(b) /\ Len(c) \in Nat) \/ c = <<>>
    PROVE  ~(Len(c) > Len(b))
  BY ShortSequences

LEMMA SparesNext ==
    ASSUME Typed, ActiveCountsScans, [Next]_vars, NEW p \in Processes
    PROVE  Spares(p)
  <1>1. /\ bus[p] \in Pending /\ Len(bus[p]) \in Nat
        /\ bus[p] # <<>> => Len(Tail(bus[p])) < Len(bus[p]) /\ Len(Tail(bus[p])) \in Nat
    <2>1. bus[p] \in Pending
      BY DEF Typed, CtlType
    <2> QED
      BY <2>1, PendingFacts, LenProperties
  <1>2. CASE bus'[p] = bus[p]
    BY <1>1, <1>2 DEF Spares
  <1>3. ASSUME NEW q \in Processes, Warm(q)
        PROVE  Spares(p)
    BY <1>2, <1>3, WarmTyped DEF Spares, Typed
  <1>4. ASSUME NEW q \in Processes, EvaluateIdle(q)
        PROVE  Spares(p)
    <2>1. CASE q # p
      BY <1>2, <1>4, <2>1, PublishPublishes DEF EvaluateIdle, Suspend, Typed
    <2>2. CASE q = p
      <3>1. Cardinality(InProgress(p)) = 0
        BY <1>4, <2>2 DEF EvaluateIdle, ActiveCountsScans
      <3> QED
        BY <3>1, InProgressFinite, FS_EmptySet DEF Spares
    <2> QED
      BY <2>1, <2>2
  <1>5. ASSUME NEW q \in Processes, Deliver(q) \/ Lose(q) \/ Crash(q)
        PROVE  Spares(p)
    <2>1. CASE q # p
      BY <1>2, <1>5, <2>1 DEF Deliver, Lose, Crash, Typed, CtlType
    <2>2. CASE q = p
      <3>1. bus'[p] = <<>> \/ (bus[p] # <<>> /\ bus'[p] = Tail(bus[p]))
        BY <1>5, <2>2 DEF Deliver, Lose, Crash, Typed, CtlType
      <3> QED
        BY <1>1, <3>1, NotLonger, Zenon DEF Spares
    <2> QED
      BY <2>1, <2>2
  <1>6. ASSUME NEW q \in Processes, Announce(q) \/ Poll(q) \/ GoIdle(q)
        PROVE  Spares(p)
    BY <1>2, <1>3, <1>6 DEF Announce, Poll, GoIdle
  <1>7. ASSUME NEW s \in Scans, Proceed(s) \/ Hang(s)
        PROVE  Spares(p)
    <2>1. Home(s) \in Processes
      BY DEF Typed, ScanType, Home
    <2> QED
      BY <1>2, <1>3, <1>7, <2>1
         DEF Proceed, Alive, Pong, GiveUp, Verdict, ScanError, Hang, Leave, ctlVars
  <1>8. ASSUME NEW s \in Scans, NEW q \in Processes, NEW f \in Files, Begin(s, q, f)
        PROVE  Spares(p)
    BY <1>3, <1>8 DEF Begin
  <1>9. CASE Boot \/ (\E f \in Files : Reputed(f)) \/ UNCHANGED vars
    BY <1>2, <1>9 DEF Boot, Reputed, vars, ctlVars
  <1> QED
    BY <1>3, <1>4, <1>5, <1>6, <1>7, <1>8, <1>9 DEF Next

\* A controller does not put the daemon to sleep under its own scans, however
\* long they take (clamav-standby.controller.ts evaluateIdleTimeout).
THEOREM NoScanIsPutToSleep == Spec => SparesItsScans
  <1>1. Typed /\ ActiveCountsScans /\ [Next]_vars
          => [\A p \in Processes :
                Len(bus'[p]) > Len(bus[p]) /\ Last(bus'[p]) = "suspend" => InProgress(p) = {}]_vars
    BY SparesNext DEF Spares
  <1> QED
    BY <1>1, CountsAlways, PTL DEF Spec, SparesItsScans

-----------------------------------------------------------------------------
(* Failing closed.  The inductive invariant adds that a scan in progress is *)
(* one of a file the validation has let through.                            *)

ScansAreValid == \A s \in Scans : scan[s].pc # "idle" => scan[s].file \in Admitted

ClosedInv == FailsClosed /\ ScansAreValid

LEMMA ClosedInit == Init => ClosedInv
  BY NoScanTyped, AntivirusConstantsOK DEF Init, ClosedInv, FailsClosed, ScansAreValid, AntivirusConstantsOK

\* Scans that go on or end, with nothing said about any file.
LEMMA ClosedKept ==
    ASSUME ClosedInv, UNCHANGED filesVars,
           \A s \in Scans : \/ scan'[s].pc = "idle"
                            \/ scan'[s].file = scan[s].file /\ scan[s].pc # "idle"
                            \/ scan'[s].file \in Admitted
    PROVE  ClosedInv'
  BY DEF filesVars, ClosedInv, FailsClosed, ScansAreValid

LEMMA ClosedNext == Typed /\ ClosedInv /\ [Next]_vars => ClosedInv'
  <1> SUFFICES ASSUME Typed, ClosedInv, [Next]_vars
               PROVE  ClosedInv'
    OBVIOUS
  <1>1. ASSUME UNCHANGED <<scan, filesVars>>
        PROVE  ClosedInv'
    BY <1>1 DEF filesVars, ClosedInv, FailsClosed, ScansAreValid
  <1>2. CASE \E p \in Processes :
            Announce(p) \/ Poll(p) \/ GoIdle(p) \/ EvaluateIdle(p) \/ Deliver(p) \/ Lose(p)
    BY <1>1, <1>2 DEF Announce, Poll, GoIdle, EvaluateIdle, Suspend, Deliver, Lose
  <1>3. ASSUME NEW p \in Processes, Crash(p)
        PROVE  ClosedInv'
    <2>1. \A s \in Scans : scan'[s] = IF Home(s) = p THEN NoScan ELSE scan[s]
      BY <1>3 DEF Crash
    <2> QED
      BY <1>3, <2>1, NoScanTyped, ClosedKept DEF Crash
  <1>4. CASE Boot \/ UNCHANGED vars
    BY <1>1, <1>4 DEF Boot, vars
  <1>5. ASSUME NEW f \in Files, Reputed(f)
        PROVE  ClosedInv'
    BY <1>5 DEF Reputed, ClosedInv, FailsClosed, ScansAreValid
  <1>6. ASSUME NEW s \in Scans, NEW p \in Processes, NEW f \in Files, Begin(s, p, f)
        PROVE  ClosedInv'
    <2>1. scan'[s].file = f /\ f \in Admitted /\ UNCHANGED filesVars
          /\ \A t \in Scans : t # s => scan'[t] = scan[t]
      BY <1>6, Begun DEF Begin
    <2> QED
      BY <2>1, ClosedKept
  <1>7. ASSUME NEW s \in Scans, Alive(s) \/ Pong(s) \/ Hang(s)
        PROVE  ClosedInv'
    <2>1. scan'[s].file = scan[s].file /\ scan[s].pc # "idle"
          /\ \A t \in Scans : t # s => scan'[t] = scan[t]
      BY <1>7, AtOne DEF Alive, Pong, Hang, Typed, Pcs
    <2> QED
      BY <1>7, <2>1, ClosedKept DEF Alive, Pong, Hang
  <1>8. ASSUME NEW s \in Scans, GiveUp(s) \/ ScanError(s)
        PROVE  ClosedInv'
    <2>1. scan'[s].pc = "idle" /\ \A t \in Scans : t # s => scan'[t] = scan[t]
      BY <1>8, Left DEF GiveUp, ScanError
    <2> QED
      BY <1>8, <2>1, ClosedKept DEF GiveUp, ScanError
  <1>9. ASSUME NEW s \in Scans, Verdict(s)
        PROVE  ClosedInv'
    <2>1. scan'[s].pc = "idle" /\ scan[s].pc # "idle" /\ \A t \in Scans : t # s => scan'[t] = scan[t]
      BY <1>9, Left DEF Verdict
    <2> DEFINE f == scan[s].file
    <2>2. f \in Files /\ f \in Admitted
      BY <2>1 DEF ClosedInv, ScansAreValid, Typed, ScanType
    <2>3. PICK v \in {"clean", "infected"} :
             /\ repute' = [repute EXCEPT ![f] = v] \/ UNCHANGED repute
             /\ passed' = IF v = "clean" THEN passed \cup {f} ELSE passed
             /\ missed \subseteq missed'
             /\ f \in Infected /\ v = "clean" => f \in missed'
      BY <1>9 DEF Verdict
    <2>4. FailsClosed'
      <3>1. passed' \cap Infected \subseteq missed'
        BY <2>3 DEF ClosedInv, FailsClosed
      <3>2. \A g \in Infected : repute'[g] = "clean" => g \in missed'
        BY <2>2, <2>3, AntivirusConstantsOK
           DEF ClosedInv, FailsClosed, Typed, RestType, AntivirusConstantsOK
      <3>3. \A g \in passed' : g \in Admitted
        BY <2>2, <2>3 DEF ClosedInv, FailsClosed
      <3> QED
        BY <3>1, <3>2, <3>3 DEF FailsClosed
    <2>5. ScansAreValid'
      BY <2>1 DEF ClosedInv, ScansAreValid
    <2> QED
      BY <2>4, <2>5 DEF ClosedInv
  <1> QED
    BY <1>2, <1>3, <1>4, <1>5, <1>6, <1>7, <1>8, <1>9 DEF Next, Proceed

\* Without an answer of the daemon nothing is called clean, and nothing ever
\* whose validation fails; what is infected, only after the daemon answered
\* that it could not scan it (clamav.ts scanBufferForVirus).
THEOREM NothingInfectedPasses == Spec => []FailsClosed
  <1>1. Spec => []ClosedInv
    BY AntivirusTypedInit, AntivirusTypedNext, ClosedInit, ClosedNext, PTL DEF Spec
  <1>2. ClosedInv => FailsClosed
    BY DEF ClosedInv
  <1> QED
    BY <1>1, <1>2, PTL
=============================================================================
