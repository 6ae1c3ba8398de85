--------------------------- MODULE MplSensorProofs --------------------------
(***************************************************************************)
(* Theorems about MPLSensor, for any sensors in use, any delays, any size  *)
(* of the window and any number of calls.                                  *)
(***************************************************************************)
EXTENDS MplSensor, TLAPS, WellFoundedInduction

\* a nonempty set of numbers has a least one
LEMMA LeastNumber ==
    ASSUME NEW T \in SUBSET Nat, T # {}
    PROVE  \E x \in T : \A y \in T : x <= y
<1>1. IsWellFoundedOn(OpToRel(<, Nat), Nat)
  BY NatLessThanWellFounded
<1>2. OpToRel(<, Nat) = {ss \in Nat \X Nat : ss[1] < ss[2]}
  BY DEF OpToRel
<1>3. IsWellFoundedOn({ss \in Nat \X Nat : ss[1] < ss[2]}, Nat)
  BY <1>1, <1>2
<1>4. PICK x \in T : \A y \in T : ~(<<y, x>> \in {ss \in Nat \X Nat : ss[1] < ss[2]})
  BY <1>3, WFMin
<1>5. ASSUME NEW y \in T PROVE x <= y
  <2>1. x \in Nat /\ y \in Nat
    OBVIOUS
  <2>2. ~(<<y, x>>[1] < <<y, x>>[2])
    BY <1>4, <2>1
  <2> QED
    BY <2>1, <2>2
<1> QED
  BY <1>5

-----------------------------------------------------------------------------
(***************************************************************************)
(* The sum of the window.                                                  *)
(***************************************************************************)

\* s lists the sums of the first 0, 1, .. n values of w
Sums(w, n, s) ==
    /\ s \in [0 .. n -> Int]
    /\ s[0] = 0
    /\ \A i \in 1 .. n : s[i] = s[i - 1] + w[i - 1]

LEMMA SumsExist ==
    ASSUME NEW w \in [Window -> Int], NEW n \in 0 .. WindowSize
    PROVE  \E s : Sums(w, n, s)
<1> DEFINE T == {m \in Nat : m <= WindowSize /\ ~\E s : Sums(w, m, s)}
<1> USE DelaysAssumption
<1>1. SUFFICES ASSUME T # {} PROVE FALSE
  OBVIOUS
<1>2. PICK m \in T : \A k \in T : m <= k
  <2> HIDE DEF T
  <2>1. T \in SUBSET Nat
    BY DEF T
  <2> QED
    BY <1>1, <2>1, LeastNumber
<1>3. m # 0
  <2>1. Sums(w, 0, [i \in 0 .. 0 |-> 0])
    BY DEF Sums
  <2> QED
    BY <2>1
<1>4. PICK s : Sums(w, m - 1, s)
  BY <1>2, <1>3
<1> DEFINE r == [i \in 0 .. m |-> IF i = m THEN s[m - 1] + w[m - 1] ELSE s[i]]
<1>5. m \in Nat \ {0} /\ m - 1 \in Window /\ w[m - 1] \in Int /\ s[m - 1] \in Int
  <2>1. m \in Nat \ {0} /\ m - 1 \in 0 .. m - 1 /\ m - 1 \in 0 .. WindowSize - 1
    BY <1>2, <1>3
  <2>2. w[m - 1] \in Int
    BY <2>1 DEF Window
  <2>3. s[m - 1] \in Int
    BY <1>4, <2>1 DEF Sums
  <2> QED
    BY <2>1, <2>2, <2>3 DEF Window
<1>6. r \in [0 .. m -> Int] /\ r[0] = 0
  BY <1>4, <1>5 DEF Sums
<1>7. \A i \in 1 .. m : r[i] = r[i - 1] + w[i - 1]
  BY <1>4, <1>5 DEF Sums
<1>8. Sums(w, m, r)
  BY <1>6, <1>7 DEF Sums
<1> QED
  BY <1>8

\* only one list of sums is there, and Total is its last element
LEMMA TotalIs ==
    ASSUME NEW w \in [Window -> Int], NEW n \in 0 .. WindowSize, NEW s, Sums(w, n, s)
    PROVE  Total(w, n) = s[n]
<1> USE DelaysAssumption
<1> DEFINE Eq(f) == f = [i \in 0 .. n |-> IF i = 0 THEN 0 ELSE f[i - 1] + w[i - 1]]
           g == CHOOSE f : Eq(f)
<1>1. Eq(s)
  BY DEF Sums
<1>2. Eq(g)
  BY <1>1
<1>3. Total(w, n) = g[n]
  BY DEF Total
<1>4. \A i \in 0 .. n : g[i] = IF i = 0 THEN 0 ELSE g[i - 1] + w[i - 1]
  <2> HIDE DEF g
  <2> QED
    BY <1>2
<1> HIDE DEF g
<1> DEFINE T == {i \in 0 .. n : g[i] # s[i]}
<1>5. T = {}
  <2> SUFFICES ASSUME T # {} PROVE FALSE
    OBVIOUS
  <2>1. PICK m \in T : \A k \in T : m <= k
    <3> HIDE DEF T
    <3>1. T \in SUBSET Nat
      BY DEF T
    <3> QED
      BY <3>1, LeastNumber
  <2>2. m # 0 /\ m \in 0 .. n
    BY <1>4 DEF Sums
  <2>3. g[m - 1] = s[m - 1]
    BY <2>1, <2>2
  <2>4. g[m] = g[m - 1] + w[m - 1]
    BY <1>4, <2>2
  <2>5. s[m] = s[m - 1] + w[m - 1]
    BY <2>2 DEF Sums
  <2>6. g[m] # s[m]
    BY <2>1
  <2> QED
    BY <2>3, <2>4, <2>5, <2>6
<1> QED
  BY <1>3, <1>5

LEMMA TotalInt ==
    ASSUME NEW w \in [Window -> Int], NEW n \in 0 .. WindowSize
    PROVE  Total(w, n) \in Int
<1>1. PICK s : Sums(w, n, s)
  BY SumsExist
<1>2. Total(w, n) = s[n]
  BY <1>1, TotalIs
<1> QED
  BY <1>1, <1>2, DelaysAssumption DEF Sums

LEMMA TotalOfNone ==
    ASSUME NEW w \in [Window -> Int]
    PROVE  Total(w, 0) = 0
<1>1. Sums(w, 0, [i \in 0 .. 0 |-> 0])
  BY DEF Sums
<1> QED
  BY <1>1, TotalIs, DelaysAssumption

LEMMA TotalOfMore ==
    ASSUME NEW w \in [Window -> Int], NEW n \in Window
    PROVE  Total(w, n + 1) = Total(w, n) + w[n]
<1> USE DelaysAssumption
<1>1. n \in Nat /\ n \in 0 .. WindowSize /\ n + 1 \in 0 .. WindowSize
  BY DEF Window
<1>2. PICK s : Sums(w, n + 1, s)
  BY <1>1, SumsExist
<1> DEFINE r == [i \in 0 .. n |-> s[i]]
<1>3. Sums(w, n, r)
  BY <1>1, <1>2 DEF Sums
<1>4. Total(w, n) = r[n]
  <2> HIDE DEF r
  <2> QED
    BY <1>1, <1>3, TotalIs
<1>5. Total(w, n + 1) = s[n + 1]
  BY <1>1, <1>2, TotalIs
<1>6. s[n + 1] = s[n] + w[n]
  BY <1>1, <1>2 DEF Sums
<1> QED
  BY <1>1, <1>4, <1>5, <1>6

\* a value that takes another's place changes the sum by their difference
LEMMA TotalOfOther ==
    ASSUME NEW w \in [Window -> Int], NEW n \in 0 .. WindowSize, NEW j \in Window, NEW v \in Int
    PROVE  Total([w EXCEPT ![j] = v], n) = Total(w, n) + IF j < n THEN v - w[j] ELSE 0
<1> USE DelaysAssumption
<1> DEFINE x == [w EXCEPT ![j] = v]
           d(i) == IF j < i THEN v - w[j] ELSE 0
<1>1. PICK s : Sums(w, n, s)
  BY SumsExist
<1> DEFINE r == [i \in 0 .. n |-> s[i] + d(i)]
<1>2. w[j] \in Int /\ j \in Nat /\ n \in Nat
  BY DEF Window
<1>3. x \in [Window -> Int]
  OBVIOUS
<1>4. r \in [0 .. n -> Int] /\ r[0] = 0
  BY <1>1, <1>2 DEF Sums
<1>5. ASSUME NEW i \in 1 .. n PROVE r[i] = r[i - 1] + x[i - 1]
  <2>1. i \in 0 .. n /\ i - 1 \in 0 .. n /\ i - 1 \in Window
    BY <1>2 DEF Window
  <2>2. s[i] = s[i - 1] + w[i - 1] /\ s[i - 1] \in Int /\ w[i - 1] \in Int
    BY <1>1, <2>1 DEF Sums
  <2>3. d(i) = d(i - 1) + (x[i - 1] - w[i - 1])
    <3>1. CASE j = i - 1
      <4>1. x[i - 1] = v
        BY <2>1, <3>1
      <4>2. d(i) = v - w[i - 1] /\ d(i - 1) = 0
        BY <1>2, <3>1
      <4> QED
        BY <2>2, <4>1, <4>2
    <3>2. CASE j # i - 1
      <4>1. x[i - 1] = w[i - 1]
        BY <2>1, <3>2
      <4>2. d(i) = d(i - 1) /\ d(i - 1) \in Int
        BY <1>2, <3>2
      <4> QED
        BY <2>2, <4>1, <4>2
    <3> QED
      BY <3>1, <3>2
  <2>4. x[i - 1] \in Int /\ d(i - 1) \in Int /\ d(i) \in Int
    BY <1>2, <2>1
  <2>5. r[i] = s[i] + d(i) /\ r[i - 1] = s[i - 1] + d(i - 1)
    BY <2>1
  <2> HIDE DEF x, d, r
  <2> QED
    BY <2>2, <2>3, <2>4, <2>5
<1>6. Sums(x, n, r)
  <2> HIDE DEF x, r
  <2> QED
    BY <1>4, <1>5 DEF Sums
<1>7. Total(x, n) = r[n]
  <2> HIDE DEF x, r
  <2> QED
    BY <1>3, <1>6, TotalIs
<1>8. Total(w, n) = s[n]
  BY <1>1, TotalIs
<1>9. r[n] = s[n] + d(n)
  BY <1>2
<1> QED
  BY <1>7, <1>8, <1>9

\* how many values count: the one added last does before the index moves on
Counted == IF mWindowFull THEN WindowSize
           ELSE IF ppc = "decide" THEN mAccelWindowIndex + 1 ELSE mAccelWindowIndex

WindowInv ==
    /\ mAccelWindow \in [Window -> Int]
    /\ mAccelWindowIndex \in Window
    /\ ~torn => mAccelWindowSum = Total(mAccelWindow, Counted)
    /\ ~torn /\ ppc = "decide" => mWindowFull \/ mAccelWindowIndex + 1 \in Window

LEMMA CountedValues ==
    ASSUME WindowInv
    PROVE  Counted \in 0 .. WindowSize
  BY DelaysAssumption DEF WindowInv, Counted, Window

LEMMA WindowInit == Init => WindowInv
<1> SUFFICES ASSUME Init PROVE WindowInv
  OBVIOUS
<1> USE DelaysAssumption, PositionsAssumption
<1>1. Min(Positions) \in Int
  <2>1. PICK a \in Positions : \A v \in Positions : a <= v
    OBVIOUS
  <2> QED
    BY <2>1 DEF Min
<1>2. mAccelWindow \in [Window -> Int] /\ mAccelWindowIndex \in Window
  BY <1>1 DEF Init, Window
<1>3. ppc # "decide" /\ Counted = 0 /\ (~torn => mAccelWindowSum = 0)
  BY DEF Init, Counted
<1> QED
  BY <1>2, <1>3, TotalOfNone DEF WindowInv

\* nothing but the poll thread's own update, and a reset, touches the window
LEMMA WindowKept ==
    ASSUME WindowInv, UNCHANGED <<windowVars, torn>>,
           UNCHANGED ppc \/ (ppc # "decide" /\ ppc' # "decide")
    PROVE  WindowInv'
  BY DEF WindowInv, Counted, windowVars

\* an empty window: whether it is torn makes no difference
LEMMA WindowReset ==
    ASSUME WindowInv, ResetAccelWindow, torn' \/ ppc' # "decide"
    PROVE  WindowInv'
<1> USE DelaysAssumption DEF WindowInv, ResetAccelWindow
<1>1. mAccelWindow' \in [Window -> Int] /\ mAccelWindowIndex' \in Window
  BY DEF Window
<1>2. CASE torn'
  BY <1>1, <1>2
<1>3. CASE ppc' # "decide"
  <2>1. Counted' = 0
    BY <1>3 DEF Counted
  <2> QED
    BY <1>1, <1>3, <2>1, TotalOfNone
<1> QED
  BY <1>2, <1>3

LEMMA WindowAdds ==
    ASSUME WindowInv, NEW v \in Positions, AddToWindow(v)
    PROVE  WindowInv'
<1> USE DelaysAssumption, PositionsAssumption
<1> DEFINE w == mAccelWindow
           i == mAccelWindowIndex
<1>1. /\ w \in [Window -> Int] /\ i \in Window /\ v \in Int /\ w[i] \in Int /\ i \in Nat
      /\ ppc = "window" /\ ppc' = "decide" /\ i' = i /\ torn' = torn
      /\ w' = [w EXCEPT ![i] = v] /\ w' \in [Window -> Int]
      /\ mWindowFull => mAccelWindowSum' = mAccelWindowSum + v - w[i]
      /\ ~mWindowFull => mAccelWindowSum' = mAccelWindowSum + v - 0
  BY DEF WindowInv, AddToWindow, Window, ghosts
<1>5. mWindowFull' <=> mWindowFull \/ i = WindowSize - 1
  BY Zenon DEF AddToWindow
<1>2. i + 1 \in 0 .. WindowSize /\ i < WindowSize /\ WindowSize \in 0 .. WindowSize
      /\ i \in 0 .. WindowSize
  BY DEF WindowInv, Window
<1> SUFFICES ASSUME ~torn PROVE mAccelWindowSum' = Total(w', Counted')
                                /\ (mWindowFull' \/ i + 1 \in Window)
  BY <1>1 DEF WindowInv
<1> HIDE DEF w, i
<1>3. CASE mWindowFull
  <2>1. mAccelWindowSum = Total(w, WindowSize)
    BY <1>1, <1>3 DEF WindowInv, Counted, w, i
  <2>2. Counted' = WindowSize /\ mWindowFull'
    BY <1>3, <1>5, Zenon DEF Counted
  <2>3. Total(w', WindowSize) = Total(w, WindowSize) + (v - w[i])
    BY <1>1, <1>2, TotalOfOther
  <2>4. Total(w, WindowSize) \in Int
    BY <1>1, <1>2, TotalInt
  <2>5. mAccelWindowSum' = mAccelWindowSum + v - w[i]
    BY <1>1, <1>3
  <2> QED
    BY <1>1, <2>1, <2>2, <2>3, <2>4, <2>5
<1>4. CASE ~mWindowFull
  <2>1. mAccelWindowSum = Total(w, i)
    BY <1>1, <1>4 DEF WindowInv, Counted, w, i
  <2>2. Counted' = i + 1 /\ (mWindowFull' \/ i + 1 \in Window)
    <3>1. CASE i = WindowSize - 1
      <4>1. mWindowFull'
        BY <1>5, <3>1, Zenon
      <4>2. Counted' = WindowSize
        BY <4>1, Zenon DEF Counted
      <4> QED
        BY <1>2, <3>1, <4>1, <4>2
    <3>2. CASE i # WindowSize - 1
      <4>1. ~mWindowFull'
        BY <1>4, <1>5, <3>2, Zenon
      <4>2. Counted' = i' + 1
        BY <1>1, <4>1, Zenon DEF Counted, i
      <4>3. i + 1 \in Window
        <5>1. i \in Int /\ 0 <= i /\ i < WindowSize /\ WindowSize \in Int
          BY <1>1, <1>2
        <5>2. i + 1 \in Int /\ 0 <= i + 1 /\ i + 1 <= WindowSize - 1
          BY <5>1, <3>2
        <5> QED
          BY <5>1, <5>2 DEF Window
      <4> QED
        BY <1>1, <4>2, <4>3
    <3> QED
      BY <3>1, <3>2
  <2>3. Total(w', i + 1) = Total(w', i) + v
    BY <1>1, TotalOfMore
  <2>4. Total(w', i) = Total(w, i) + 0
    <3>1. Total(w', i) = Total(w, i) + IF i < i THEN v - w[i] ELSE 0
      <4>1. Total([w EXCEPT ![i] = v], i) = Total(w, i) + IF i < i THEN v - w[i] ELSE 0
        BY <1>1, <1>2, TotalOfOther, ZenonT(60)
      <4> QED
        BY <1>1, <4>1, Zenon
    <3>2. ~(i < i)
      BY <1>1
    <3> QED
      BY <3>1, <3>2, Zenon
  <2>5. Total(w, i) \in Int
    BY <1>1, <1>2, TotalInt
  <2>6. mAccelWindowSum' = mAccelWindowSum + v - 0
    BY <1>1, <1>4
  <2> QED
    BY <1>1, <2>1, <2>2, <2>3, <2>4, <2>5, <2>6
<1> QED
  BY <1>3, <1>4

LEMMA WindowMovesOn ==
    ASSUME WindowInv, Decide
    PROVE  WindowInv'
<1> USE DelaysAssumption
<1>1. /\ ppc = "decide" /\ ppc' # "decide"
      /\ mAccelWindowIndex' = (mAccelWindowIndex + 1) % WindowSize
      /\ UNCHANGED <<mAccelWindow, mWindowFull, mAccelWindowSum, torn>>
  BY DEF Decide, NextIndex, ghosts
<1>2. mAccelWindowIndex \in 0 .. WindowSize - 1
  BY DEF WindowInv, Window
<1>3. mAccelWindowIndex' \in Window
  BY <1>1, <1>2 DEF Window
<1>4. ~torn => Counted' = Counted
  <2>1. CASE mWindowFull
    BY <1>1, <2>1 DEF Counted
  <2>2. CASE ~mWindowFull /\ ~torn
    <3>1. mAccelWindowIndex + 1 \in 0 .. WindowSize - 1
      BY <1>1, <2>2 DEF WindowInv, Window
    <3>2. mAccelWindowIndex' = mAccelWindowIndex + 1
      BY <1>1, <1>2, <3>1
    <3> QED
      BY <1>1, <2>2, <3>2 DEF Counted
  <2> QED
    BY <2>1, <2>2
<1> QED
  BY <1>1, <1>3, <1>4 DEF WindowInv

LEMMA WindowStep == WindowInv /\ [Next]_vars => WindowInv'
<1> SUFFICES ASSUME WindowInv, [Next]_vars PROVE WindowInv'
  OBVIOUS
<1>1. CASE UNCHANGED vars
  BY <1>1, WindowKept DEF vars, pollVars, ghosts
<1>2. CASE Request
  BY <1>2, WindowKept DEF Request, Enable, SetDelay, pollVars, ghosts
<1>3. CASE ControlStep
  <2>1. CASE ResetForLinearAccel
    <3>1. CASE call.what = "LinearAccel" /\ call.en
      <4>1. ResetAccelWindow /\ torn' = InWindow /\ UNCHANGED ppc
        BY <2>1, <3>1 DEF ResetForLinearAccel, pollVars
      <4> QED
        BY <4>1, WindowReset DEF InWindow
    <3>2. CASE ~(call.what = "LinearAccel" /\ call.en)
      BY <2>1, <3>2, WindowKept DEF ResetForLinearAccel, pollVars
    <3> QED
      BY <3>1, <3>2
  <2>2. CASE ~ResetForLinearAccel
    BY <1>3, <2>2, WindowKept DEF ControlStep, SwitchOn, SwitchOff, StoreCalibration, UpdateRates,
       UpdateNodes, Unlock, pollVars, ghosts
  <2> QED
    BY <2>1, <2>2
<1>4. CASE PollStep
  <2>1. ASSUME NEW v \in Positions, AddToWindow(v) PROVE WindowInv'
    BY <2>1, WindowAdds
  <2>2. CASE Decide
    BY <2>2, WindowMovesOn
  <2>3. CASE FastReset
    BY <2>3, WindowReset DEF FastReset
  <2>4. CASE Fill \/ Test \/ Build \/ ExecuteOnData \/ IdleRate \/ \E ok \in BOOLEAN : FastRate(ok)
    BY <2>4, WindowKept DEF Fill, Test, Build, ExecuteOnData, IdleRate, FastRate, ghosts
  <2> QED
    BY <1>4, <2>1, <2>2, <2>3, <2>4 DEF PollStep
<1> QED
  BY <1>1, <1>2, <1>3, <1>4 DEF Next

(* The sum isDeviceOrientationStable() divides is that of the values the   *)
(* window holds, for a window of any size that wraps around and is reset   *)
(* any number of times.                                                    *)
THEOREM SumOfTheWindow == Spec => []SumIsWindow
<1>1. WindowInv => SumIsWindow
  BY DEF WindowInv, SumIsWindow, Counted
<1> QED
  BY <1>1, WindowInit, WindowStep, PTL DEF Spec

-----------------------------------------------------------------------------
(***************************************************************************)
(* Calls.  What the poll thread may do while a call is in progress is to   *)
(* build a sample, which turns a sensor on in the library, and to find the *)
(* calibration good.                                                       *)
(***************************************************************************)

Calls == [what : Handles \cup {"none", "setDelay"}, en : BOOLEAN, ok : BOOLEAN, good : BOOLEAN,
          saveFailed : BOOLEAN]

InEnable == cpc \in {"gyro", "accel", "compass", "store", "sensorsDone", "unlock"}
InEither == cpc \in {"delay", "nodes", "dead"}

CallTyped ==
    /\ cpc \in {"idle", "gyro", "accel", "compass", "store", "sensorsDone", "delay", "nodes",
                "unlock", "dead"}
    /\ call \in Calls
    /\ lock \in BOOLEAN /\ mHaveGoodMpuCal \in BOOLEAN
    /\ InEnable => lock
    /\ lock => InEnable \/ InEither
    /\ mEnabled \subseteq Handles
    /\ lock => mLocalSensorMask = LocalMask(mEnabled)

LEMMA NoCallTyped == NoCall \in Calls
  BY DEF NoCall, Calls

LEMMA CallInit == Init => CallTyped
<1> SUFFICES ASSUME Init PROVE CallTyped
  OBVIOUS
<1>1. cpc = "idle" /\ lock = FALSE /\ mHaveGoodMpuCal = FALSE /\ mEnabled = {} /\ call = NoCall
  BY DEF Init
<1> QED
  BY <1>1, NoCallTyped DEF CallTyped, InEnable

LEMMA AfterIs == \A s \in Sensors :
    /\ s = "gyro" => After(s) = "accel"
    /\ s = "accel" => After(s) = IF HasCompass THEN "compass" ELSE "store"
    /\ s = "compass" => After(s) = "store"
  BY DEF After, Sensors

LEMMA CallStep == CallTyped /\ [Next]_vars => CallTyped'
<1> SUFFICES ASSUME CallTyped, [Next]_vars PROVE CallTyped'
  OBVIOUS
<1> USE DEF CallTyped, InEnable, InEither
<1>1. CASE UNCHANGED vars
  BY <1>1 DEF vars, controlVars, requestVars, calVars
<1>2. CASE PollStep
  <2>1. UNCHANGED <<controlVars, requestVars>> /\ mHaveGoodMpuCal' \in BOOLEAN
    BY <1>2 DEF PollStep, Fill, Test, Build, ExecuteOnData, AddToWindow, Decide, IdleRate,
       FastReset, FastRate, calVars
  <2> QED
    BY <2>1 DEF controlVars, requestVars
<1>3. ASSUME NEW h \in Handles, NEW en \in BOOLEAN, Enable(h, en) PROVE CallTyped'
  <2>1. call' \in Calls
    BY <1>3 DEF Enable, Calls
  <2> QED
    BY <1>3, <2>1 DEF Enable, calVars
<1>4. ASSUME NEW h \in Handles, NEW ms \in Delays, SetDelay(h, ms) PROVE CallTyped'
  <2>1. call' \in Calls
    BY <1>4 DEF SetDelay, Calls, NoCall
  <2> QED
    BY <1>4, <2>1 DEF SetDelay, calVars
<1>5. ASSUME NEW s \in Sensors, SwitchOn(s) \/ SwitchOff(s) PROVE CallTyped'
  <2>1. call' \in Calls
    BY <1>5 DEF SwitchOn, SwitchOff, Calls
  <2>2. After(s) \in {"accel", "compass", "store"} /\ s \in {"gyro", "accel", "compass"}
    BY AfterIs DEF Sensors
  <2> QED
    BY <1>5, <2>1, <2>2 DEF SwitchOn, SwitchOff, requestVars, calVars
<1>6. CASE StoreCalibration
  <2>1. call' = call \/ call' = [call EXCEPT !.saveFailed = TRUE]
    BY <1>6 DEF StoreCalibration
  <2>2. call' \in Calls
    BY <2>1 DEF Calls
  <2> QED
    BY <1>6, <2>2 DEF StoreCalibration, requestVars, calVars
<1>7. CASE ResetForLinearAccel
  BY <1>7 DEF ResetForLinearAccel, requestVars, calVars
<1>8. CASE Unlock
  <2>1. call' \in Calls
    BY <1>8 DEF Unlock, Calls, NoCall
  <2> QED
    BY <1>8, <2>1 DEF Unlock, requestVars, calVars
<1>9. CASE UpdateRates
  <2>1. call' \in Calls
    <3>1. call' = call \/ call' = NoCall
      BY <1>9, Zenon DEF UpdateRates
    <3> QED
      BY <3>1, NoCallTyped
  <2> QED
    BY <1>9, <2>1 DEF UpdateRates, DelayDone, requestVars, calVars
<1>10. CASE UpdateNodes
  <2>1. call' \in Calls
    BY <1>10 DEF UpdateNodes, Calls, NoCall
  <2> QED
    BY <1>10, <2>1 DEF UpdateNodes, DelayDone, requestVars, calVars
<1> QED
  BY <1>1, <1>2, <1>3, <1>4, <1>5, <1>6, <1>7, <1>8, <1>9, <1>10 DEF Next, Request, ControlStep

-----------------------------------------------------------------------------
(***************************************************************************)
(* The gyro's rate.                                                        *)
(***************************************************************************)

\* delays (int) keeps as they are
Short == {d \in Nat : 2 * d < IntSpan}

RateInv ==
    /\ mDelays \in [Handles -> Short]
    /\ cpc = "nodes" \/ (cpc \in {"unlock", "idle"} /\ ~call.en) =>
          (mEnabled # {} => gyroRate = Shortest)

LEMMA LeastDelay ==
    ASSUME CallTyped, RateInv, mEnabled # {}
    PROVE  ToInt(Shortest) = Shortest
<1> DEFINE D == {mDelays[h] : h \in mEnabled}
<1>1. D \in SUBSET Short /\ D \in SUBSET Nat /\ D # {}
  BY DEF CallTyped, RateInv, Short
<1>2. PICK m \in D : \A d \in D : m <= d
  <2> HIDE DEF D
  <2> QED
    BY <1>1, LeastNumber
<1>3. Shortest \in D
  BY <1>2 DEF Shortest, Min
<1>4. Shortest \in Short
  BY <1>1, <1>3
<1> QED
  BY <1>4, DelaysAssumption DEF Short, ToInt

LEMMA RateInit == Init => RateInv
  BY DelaysAssumption DEF Init, RateInv, Short

LEMMA RateStep ==
    ASSUME \A d \in Delays : 2 * Max({d, MinDelay}) < IntSpan,
           CallTyped, RateInv, [Next]_vars
    PROVE  RateInv'
<1> USE DEF RateInv
<1>1. ASSUME UNCHANGED <<requestVars, gyroRate, cpc, call>> PROVE RateInv'
  BY <1>1 DEF requestVars, Shortest
<1>2. CASE UNCHANGED vars
  BY <1>1, <1>2 DEF vars, controlVars, rateVars
<1>3. CASE PollStep
  BY <1>1, <1>3 DEF PollStep, Fill, Test, Build, ExecuteOnData, AddToWindow, Decide, IdleRate,
     FastReset, FastRate, controlVars, rateVars
<1>4. ASSUME NEW h \in Handles, NEW en \in BOOLEAN, Enable(h, en) PROVE RateInv'
  BY <1>4 DEF Enable
<1>5. ASSUME NEW h \in Handles, NEW ms \in Delays, SetDelay(h, ms) PROVE RateInv'
  <2>1. Max({ms, MinDelay}) \in Short
    <3>1. ms \in Nat /\ MinDelay \in Nat
      BY DelaysAssumption
    <3>2. Max({ms, MinDelay}) \in {ms, MinDelay}
      <4>1. \E x \in {ms, MinDelay} : \A y \in {ms, MinDelay} : x >= y
        BY <3>1
      <4> QED
        BY <4>1 DEF Max
    <3> QED
      BY <3>1, <3>2 DEF Short
  <2> QED
    BY <1>5, <2>1 DEF SetDelay
<1>6. ASSUME NEW s \in Sensors, SwitchOn(s) \/ SwitchOff(s) PROVE RateInv'
  <2>1. cpc' \in {"accel", "compass", "store", "sensorsDone"}
    BY <1>6, AfterIs DEF SwitchOn, SwitchOff, Sensors
  <2> QED
    BY <1>6, <2>1 DEF SwitchOn, SwitchOff, requestVars
<1>7. CASE StoreCalibration
  BY <1>7 DEF StoreCalibration, requestVars
<1>8. CASE ResetForLinearAccel
  BY <1>8 DEF ResetForLinearAccel, requestVars
<1>9. CASE Unlock
  <2>1. call'.en = call.en
    BY <1>9 DEF Unlock, NoCall
  <2> QED
    BY <1>9, <2>1 DEF Unlock, requestVars, rateVars, Shortest
<1>10. CASE UpdateRates
  <2>1. CASE mEnabled = {}
    BY <1>10, <2>1 DEF UpdateRates, requestVars
  <2>2. CASE mEnabled # {}
    <3>1. gyroRate' = Shortest
      BY <1>10, <2>2, LeastDelay DEF UpdateRates
    <3>2. cpc' \in {"nodes", "dead"} /\ UNCHANGED requestVars
      BY <1>10, <2>2 DEF UpdateRates
    <3> QED
      BY <3>1, <3>2 DEF requestVars, Shortest
  <2> QED
    BY <2>1, <2>2
<1>11. CASE UpdateNodes
  BY <1>11 DEF UpdateNodes, requestVars, Shortest
<1> QED
  BY <1>2, <1>3, <1>4, <1>5, <1>6, <1>7, <1>8, <1>9, <1>10, <1>11 DEF Next, Request, ControlStep

(* After setDelay() or a disable() the library has the least delay of the  *)
(* sensors that are enabled, as long as every delay the service may ask    *)
(* for, in nanoseconds, is an int.                                         *)
THEOREM LeastDelayInForce ==
    ASSUME \A d \in Delays : 2 * Max({d, MinDelay}) < IntSpan
    PROVE  Spec => []RateIsMinimum
<1>1. RateInv => RateIsMinimum
  BY DEF RateInv, RateIsMinimum, Shortest
<1>2. CallTyped /\ RateInv /\ [Next]_vars => CallTyped' /\ RateInv'
  BY CallStep, RateStep
<1> QED
  BY <1>1, <1>2, CallInit, RateInit, PTL DEF Spec

-----------------------------------------------------------------------------
(***************************************************************************)
(* Power.  PowerFollowsMask speaks of the end of an enable(): in between,  *)
(* it holds of the sensors enableSensors() has passed already.             *)
(***************************************************************************)

Passed(s) ==
    /\ lock
    /\ s = "gyro" => cpc # "gyro"
    /\ s = "accel" => cpc \notin {"gyro", "accel"}
    /\ s = "compass" => cpc \notin {"gyro", "accel", "compass"} /\ HasCompass

AllPassed == lock /\ cpc \notin {"gyro", "accel", "compass", "store"}

PowerInv ==
    /\ lock /\ call.good => mHaveGoodMpuCal
    /\ call.ok => \A s \in Sensors : Passed(s) =>
          /\ fifo[s] <=> s \in mLocalSensorMask
          /\ on[s] => fifo[s] \/ s \in late
    /\ AllPassed /\ call.ok /\ call.good /\ mEnabled = {} => stored \/ call.saveFailed

\* the typing of what the sensors are
SensorsTyped == fifo \in [Sensors -> BOOLEAN] /\ on \in [Sensors -> BOOLEAN]

\* what computeLocalSensorMask() is for
LEMMA MaskIsNeeded ==
    ASSUME CallTyped, NEW s \in Sensors
    PROVE  s \in LocalMask(mEnabled) <=> \E h \in mEnabled : h \in Fusion \/ Plain3[h] = s
<1>1. CASE mEnabled \cap Fusion # {}
  BY <1>1 DEF LocalMask
<1>2. CASE mEnabled \cap Fusion = {}
  BY <1>2 DEF LocalMask
<1> QED
  BY <1>1, <1>2

PInv == CallTyped /\ SensorsTyped /\ PowerInv

LEMMA PowerInit == Init => SensorsTyped /\ PowerInv
<1> SUFFICES ASSUME Init PROVE SensorsTyped /\ PowerInv
  OBVIOUS
<1>1. lock = FALSE
  BY DEF Init
<1>2. SensorsTyped
  BY DEF Init, SensorsTyped
<1> QED
  BY <1>1, <1>2 DEF PowerInv, Passed, AllPassed

LEMMA TypedSensors ==
    ASSUME SensorsTyped, [Next]_vars
    PROVE  SensorsTyped'
<1> USE DEF SensorsTyped
<1>1. ASSUME UNCHANGED <<fifo, on>> PROVE SensorsTyped'
  BY <1>1
<1>2. ASSUME NEW s \in Sensors, SwitchOn(s) \/ SwitchOff(s) PROVE SensorsTyped'
  <2>1. \E b \in BOOLEAN : fifo' = [fifo EXCEPT ![s] = b] \/ fifo' = fifo
    BY <1>2 DEF SwitchOn, SwitchOff
  <2>2. \E b \in BOOLEAN : on' = [on EXCEPT ![s] = b] \/ on' = on
    BY <1>2 DEF SwitchOn, SwitchOff
  <2> QED
    BY <2>1, <2>2
<1>3. CASE Build
  BY <1>3 DEF Build, First, Sensors
<1> QED
  BY <1>1, <1>2, <1>3 DEF Next, Request, ControlStep, PollStep, vars, powerVars, Enable, SetDelay,
     StoreCalibration, ResetForLinearAccel, UpdateRates, UpdateNodes, Unlock, Fill, Test,
     ExecuteOnData, AddToWindow, Decide, IdleRate, FastReset, FastRate

\* a step that leaves the sensors alone, and passes none
LEMMA PowerKept ==
    ASSUME PowerInv,
           UNCHANGED <<fifo, on, stored, late, mEnabled, mLocalSensorMask>>,
           mHaveGoodMpuCal => mHaveGoodMpuCal',
           lock' => /\ lock
                    /\ call'.good = call.good /\ call'.saveFailed = call.saveFailed
                    /\ call'.ok => call.ok
                    /\ AllPassed' => AllPassed
                    /\ \A s \in Sensors : Passed(s)' => Passed(s)
    PROVE  PowerInv'
  BY DEF PowerInv, Passed, AllPassed

\* one sensor switched: what was passed stays as it was
LEMMA SwitchPasses ==
    ASSUME PInv, NEW s \in Sensors, cpc = s, UNCHANGED lock,
           cpc' \in {After(s), "sensorsDone"}, cpc' = "sensorsDone" => ~call'.ok,
           NEW r \in Sensors, r # s, call'.ok, Passed(r)'
    PROVE  Passed(r)
<1>1. cpc' = After(s)
  OBVIOUS
<1> QED
  BY <1>1, AfterIs DEF Passed, Sensors

LEMMA SwitchOnPower ==
    ASSUME PInv, NEW s \in Sensors, SwitchOn(s)
    PROVE  PowerInv'
<1> USE DEF PInv, PowerInv
<1>1. /\ cpc = s /\ s \in mLocalSensorMask /\ call'.good = call.good /\ call \in Calls
      /\ UNCHANGED <<lock, on, stored, late, mEnabled, mLocalSensorMask, mHaveGoodMpuCal>>
      /\ cpc' \in {After(s), "sensorsDone"}
  BY DEF SwitchOn, CallTyped, Calls, requestVars, ghosts, calVars
<1>2. /\ call'.ok => cpc' = After(s) /\ call' = call /\ fifo' = [fifo EXCEPT ![s] = TRUE]
      /\ cpc' = "sensorsDone" => ~call'.ok
  <2>1. After(s) # "sensorsDone"
    BY AfterIs DEF Sensors
  <2> QED
    BY <1>1, <2>1 DEF SwitchOn, CallTyped, Calls
<1>3. call'.ok => ~AllPassed'
  BY <1>2, AfterIs DEF AllPassed, Sensors
<1>4. ASSUME call'.ok, NEW r \in Sensors, Passed(r)'
      PROVE  /\ fifo'[r] <=> r \in mLocalSensorMask'
             /\ on'[r] => fifo'[r] \/ r \in late'
  <2>1. CASE r = s
    BY <1>1, <1>2, <1>4, <2>1 DEF SensorsTyped
  <2>2. CASE r # s
    <3>1. Passed(r)
      BY <1>1, <1>2, <1>4, <2>2, SwitchPasses
    <3>2. fifo'[r] = fifo[r] /\ call.ok
      BY <1>2, <1>4, <2>2 DEF SensorsTyped
    <3> QED
      BY <1>1, <3>1, <3>2
  <2> QED
    BY <2>1, <2>2
<1> QED
  BY <1>1, <1>3, <1>4

LEMMA SwitchOffPower ==
    ASSUME PInv, NEW s \in Sensors, SwitchOff(s)
    PROVE  PowerInv'
<1> USE DEF PInv, PowerInv
<1>1. /\ cpc = s /\ s \notin mLocalSensorMask /\ call'.good = call.good /\ call \in Calls
      /\ UNCHANGED <<lock, stored, mEnabled, mLocalSensorMask, mHaveGoodMpuCal>>
      /\ late' = late \ {s}
      /\ cpc' \in {After(s), "sensorsDone"}
  BY DEF SwitchOff, CallTyped, Calls, requestVars, calVars
<1>2. /\ call'.ok => /\ cpc' = After(s) /\ call.ok
                     /\ fifo' = [fifo EXCEPT ![s] = FALSE] /\ on' = [on EXCEPT ![s] = FALSE]
      /\ cpc' = "sensorsDone" => ~call'.ok
  <2>1. After(s) # "sensorsDone"
    BY AfterIs DEF Sensors
  <2> QED
    BY <1>1, <2>1 DEF SwitchOff, CallTyped, Calls
<1>3. call'.ok => ~AllPassed'
  BY <1>2, AfterIs DEF AllPassed, Sensors
<1>4. ASSUME call'.ok, NEW r \in Sensors, Passed(r)'
      PROVE  /\ fifo'[r] <=> r \in mLocalSensorMask'
             /\ on'[r] => fifo'[r] \/ r \in late'
  <2>1. CASE r = s
    BY <1>1, <1>2, <1>4, <2>1 DEF SensorsTyped
  <2>2. CASE r # s
    <3>1. Passed(r)
      BY <1>1, <1>2, <1>4, <2>2, SwitchPasses
    <3>2. fifo'[r] = fifo[r] /\ on'[r] = on[r] /\ call.ok
      BY <1>2, <1>4, <2>2 DEF SensorsTyped
    <3> QED
      BY <1>1, <2>2, <3>1, <3>2
  <2> QED
    BY <2>1, <2>2
<1> QED
  BY <1>1, <1>3, <1>4

\* with nothing enabled, a good calibration is stored, or storing it fails
LEMMA StorePower ==
    ASSUME PInv, StoreCalibration
    PROVE  PowerInv'
<1> USE DEF PInv
<1>1. /\ cpc = "store" /\ cpc' = "sensorsDone"
      /\ call' = call \/ call' = [call EXCEPT !.saveFailed = TRUE]
      /\ UNCHANGED <<lock, fifo, on, late, mEnabled, mLocalSensorMask, mHaveGoodMpuCal>>
  BY DEF StoreCalibration, requestVars, ghosts, calVars
<1>2. call \in Calls
  BY DEF CallTyped
<1>3. call'.ok = call.ok /\ call'.good = call.good
  BY <1>1, <1>2 DEF Calls
<1>4. lock /\ call.good /\ mEnabled = {} => stored' \/ call'.saveFailed
  <2> SUFFICES ASSUME lock, call.good, mEnabled = {} PROVE stored' \/ call'.saveFailed
    OBVIOUS
  <2>1. mLocalSensorMask = {}
    BY DEF CallTyped, LocalMask
  <2>2. NothingOn /\ mHaveGoodMpuCal
    BY <2>1 DEF PowerInv, NothingOn
  <2>3. stored' = TRUE \/ call' = [call EXCEPT !.saveFailed = TRUE]
    BY <2>2 DEF StoreCalibration
  <2> QED
    BY <2>3, <1>2 DEF Calls
<1> QED
  BY <1>1, <1>3, <1>4 DEF PowerInv, Passed, AllPassed

\* a sample marks its sensor late if the mask changed since the test
LEMMA BuildPower ==
    ASSUME PInv, Build
    PROVE  PowerInv'
<1> USE DEF PInv
<1>1. /\ on' = [on EXCEPT ![First] = TRUE] /\ First \in Sensors
      /\ late' = IF First \in mLocalSensorMask THEN late \ {First} ELSE late \cup {First}
      /\ UNCHANGED <<cpc, call, lock, fifo, stored, mEnabled, mLocalSensorMask, mHaveGoodMpuCal>>
  BY DEF Build, First, Sensors, controlVars, requestVars, calVars
<1>2. ASSUME call.ok, NEW r \in Sensors, Passed(r)
      PROVE  on'[r] => fifo[r] \/ r \in late'
  <2>1. fifo[r] <=> r \in mLocalSensorMask
    BY <1>2 DEF PowerInv
  <2>2. CASE r = First
    BY <1>1, <2>1, <2>2
  <2>3. CASE r # First
    BY <1>1, <1>2, <2>3 DEF PowerInv, SensorsTyped
  <2> QED
    BY <2>2, <2>3
<1> QED
  BY <1>1, <1>2 DEF PowerInv, Passed, AllPassed

LEMMA PowerStep == PInv /\ [Next]_vars => PowerInv'
<1> SUFFICES ASSUME PInv, [Next]_vars PROVE PowerInv'
  OBVIOUS
<1> USE DEF PInv
<1>1. CASE UNCHANGED vars
  BY <1>1, PowerKept DEF vars, controlVars, powerVars, requestVars, calVars, ghosts, Passed, AllPassed
<1>2. CASE Build
  BY <1>2, BuildPower
<1>3. ASSUME PollStep, ~Build PROVE PowerInv'
  <2>1. UNCHANGED <<controlVars, powerVars, requestVars, late>>
    BY <1>3 DEF PollStep, Fill, Test, ExecuteOnData, AddToWindow, Decide, IdleRate,
       FastReset, FastRate, ghosts
  <2>2. mHaveGoodMpuCal => mHaveGoodMpuCal'
    BY <1>3 DEF PollStep, Fill, Test, ExecuteOnData, AddToWindow, Decide, IdleRate,
       FastReset, FastRate, calVars
  <2> QED
    BY <2>1, <2>2, PowerKept DEF controlVars, powerVars, requestVars, Passed, AllPassed
<1>4. ASSUME NEW h \in Handles, NEW en \in BOOLEAN, Enable(h, en) PROVE PowerInv'
  <2>1. cpc' = "gyro" /\ call'.good = mHaveGoodMpuCal /\ mHaveGoodMpuCal' = mHaveGoodMpuCal
    BY <1>4 DEF Enable, calVars
  <2>2. ~AllPassed' /\ \A s \in Sensors : ~Passed(s)'
    BY <2>1 DEF AllPassed, Passed, Sensors
  <2> QED
    BY <2>1, <2>2 DEF PowerInv
<1>5. ASSUME NEW h \in Handles, NEW ms \in Delays, SetDelay(h, ms) PROVE PowerInv'
  <2>1. ~lock /\ lock' = lock
    BY <1>5 DEF SetDelay, CallTyped, InEnable, InEither
  <2> QED
    BY <2>1 DEF PowerInv, Passed, AllPassed
<1>6. ASSUME NEW s \in Sensors, SwitchOn(s) \/ SwitchOff(s) PROVE PowerInv'
  BY <1>6, SwitchOnPower, SwitchOffPower
<1>7. CASE StoreCalibration
  BY <1>7, StorePower
<1>8. CASE ResetForLinearAccel
  BY <1>8, PowerKept DEF ResetForLinearAccel, powerVars, requestVars, calVars, Passed, AllPassed
<1>9. CASE Unlock
  <2>1. ~lock'
    BY <1>9 DEF Unlock
  <2> QED
    BY <2>1 DEF PowerInv, Passed, AllPassed
<1>10. CASE UpdateRates
  BY <1>10, PowerKept DEF UpdateRates, powerVars, requestVars, calVars, ghosts, Passed, AllPassed
<1>11. CASE UpdateNodes
  <2>1. lock => call'.good = call.good /\ call'.saveFailed = call.saveFailed /\ (call'.ok => call.ok)
    BY <1>11 DEF UpdateNodes, CallTyped, Calls
  <2> QED
    BY <1>11, <2>1, PowerKept DEF UpdateNodes, powerVars, requestVars, calVars, ghosts, Passed,
       AllPassed
<1> QED
  BY <1>1, <1>2, <1>3, <1>4, <1>5, <1>6, <1>7, <1>8, <1>9, <1>10, <1>11 DEF Next, Request, ControlStep

(* An enable() whose writes all worked leaves on what is needed and off    *)
(* what is not, in the chip and, late samples aside, in the library; with  *)
(* nothing enabled it stores a good calibration, unless storing fails.     *)
(* For any sequence of calls and failures, and any interleaving with the   *)
(* poll thread.                                                            *)
THEOREM OnlyNeededIsOn == Spec => PowerFollowsMask
<1> DEFINE Good ==
       cpc = "unlock" /\ call.ok =>
         /\ \A s \in Sensors : (s = "compass" => HasCompass) =>
              /\ fifo[s] <=> \E h \in mEnabled : h \in Fusion \/ Plain3[h] = s
              /\ on[s] => fifo[s] \/ s \in late
         /\ mEnabled = {} /\ call.good => stored \/ call.saveFailed
<1>1. PInv => Good
  <2> SUFFICES ASSUME PInv, cpc = "unlock", call.ok
               PROVE /\ \A s \in Sensors : (s = "compass" => HasCompass) =>
                         /\ fifo[s] <=> \E h \in mEnabled : h \in Fusion \/ Plain3[h] = s
                         /\ on[s] => fifo[s] \/ s \in late
                     /\ mEnabled = {} /\ call.good => stored \/ call.saveFailed
    OBVIOUS
  <2>1. lock /\ mLocalSensorMask = LocalMask(mEnabled)
    BY DEF PInv, CallTyped, InEnable
  <2>2. \A s \in Sensors : (s = "compass" => HasCompass) => Passed(s)
    BY <2>1 DEF Passed
  <2>3. AllPassed
    BY <2>1 DEF AllPassed
  <2>4. \A s \in Sensors : s \in mLocalSensorMask <=> \E h \in mEnabled : h \in Fusion \/ Plain3[h] = s
    BY <2>1, MaskIsNeeded DEF PInv
  <2> QED
    BY <2>2, <2>3, <2>4 DEF PInv, PowerInv
<1>2. PInv /\ [Next]_vars => PInv'
  BY CallStep, TypedSensors, PowerStep DEF PInv
<1>3. Init => PInv
  BY CallInit, PowerInit DEF PInv
<1>4. Good => [Good]_vars
  OBVIOUS
<1> QED
  BY <1>1, <1>2, <1>3, <1>4, PTL DEF Spec, PowerFollowsMask
=============================================================================
