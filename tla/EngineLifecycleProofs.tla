----------------------- MODULE EngineLifecycleProofs -----------------------
(***************************************************************************)
(* Theorems about EngineLifecycle, for any number of engines, callers and  *)
(* calls of Open.                                                          *)
(***************************************************************************)
EXTENDS EngineLifecycle, TLAPS

LEMMA LifecycleInitInv == LifecycleInit => LifecycleInv
  BY DEF LifecycleInit, LifecycleInv, LifecycleTypeOK, Paired, Addressed, KeptApart,
         KeptAlone, CallsAtHome, Opening, Quiet, Fields, Object, Objects

LEMMA StepBeginOpen ==
  ASSUME LifecycleInv, NEW e \in Engines, BeginOpen(e)
  PROVE  LifecycleInv'
<1>1. LifecycleTypeOK'
  BY DEF LifecycleInv, LifecycleTypeOK, BeginOpen, Goto, pointers, Opening
<1>2. Paired'
  BY DEF LifecycleInv, LifecycleTypeOK, Paired, BeginOpen, Goto, pointers
<1>3. Addressed'
  BY DEF LifecycleInv, Addressed, BeginOpen, Goto, pointers
<1>4. KeptApart'
  BY DEF LifecycleInv, KeptApart, BeginOpen, Quiet
<1>5. KeptAlone'
  <2>1. engine'[e] = opens + 1 /\ opens + 1 # 0
    BY DEF LifecycleInv, LifecycleTypeOK, BeginOpen
  <2>2. QED
    BY <2>1 DEF LifecycleInv, LifecycleTypeOK, KeptAlone, BeginOpen, Goto, pointers, Opening
<1>6. CallsAtHome'
  BY DEF LifecycleInv, CallsAtHome, BeginOpen, Quiet
<1> QED  BY <1>1, <1>2, <1>3, <1>4, <1>5, <1>6 DEF LifecycleInv

LEMMA StepNewValueResources ==
  ASSUME LifecycleInv, NewValueResources
  PROVE  LifecycleInv'
<1>1. LifecycleTypeOK'
  BY DEF LifecycleInv, LifecycleTypeOK, Paired, NewValueResources, Goto, habits, Opening,
         Fields, Object
<1>2. Paired'
  BY DEF LifecycleInv, LifecycleTypeOK, Paired, NewValueResources, Goto
<1>3. Addressed'
  BY DEF LifecycleInv, Addressed, NewValueResources, Goto
<1>4. KeptApart'
  BY DEF LifecycleInv, KeptApart, NewValueResources, Goto, Quiet, habits
<1>5. KeptAlone'
  BY DEF LifecycleInv, KeptAlone, NewValueResources, Goto, habits, Opening
<1>6. CallsAtHome'
  BY DEF LifecycleInv, CallsAtHome, NewValueResources, habits
<1> QED  BY <1>1, <1>2, <1>3, <1>4, <1>5, <1>6 DEF LifecycleInv

LEMMA StepNewIndex ==
  ASSUME LifecycleInv, NewIndex
  PROVE  LifecycleInv'
<1>1. LifecycleTypeOK'
  BY DEF LifecycleInv, LifecycleTypeOK, Paired, NewIndex, Goto, habits, Fields, Object
<1>2. Paired'
  BY DEF LifecycleInv, LifecycleTypeOK, Paired, NewIndex, Goto
<1>3. Addressed'
  BY DEF LifecycleInv, Addressed, NewIndex, Goto
<1>4. KeptApart'
  BY DEF LifecycleInv, KeptApart, NewIndex, Goto, habits
<1>5. KeptAlone'
  <2>1. ASSUME alone PROVE live' = Objects'
    <3>1. live = {Object("value_resources", opens)} /\ value_resources = opens
      BY <2>1 DEF LifecycleInv, Paired, KeptAlone, NewIndex, Goto, Opening
    <3>2. QED  BY <3>1 DEF NewIndex, Goto, Object, Objects
  <2>2. QED
    BY <2>1 DEF LifecycleInv, LifecycleTypeOK, Paired, KeptAlone, NewIndex, Goto, Opening, habits
<1>6. CallsAtHome'
  BY DEF LifecycleInv, CallsAtHome, NewIndex, habits
<1> QED  BY <1>1, <1>2, <1>3, <1>4, <1>5, <1>6 DEF LifecycleInv

LEMMA StepDeleteValues ==
  ASSUME LifecycleInv, NEW e \in Engines, DeleteValues(e)
  PROVE  LifecycleInv'
<1>1. LifecycleTypeOK'
  BY DEF LifecycleInv, LifecycleTypeOK, DeleteValues, Goto, Delete
<1>2. Paired'
  BY DEF LifecycleInv, LifecycleTypeOK, Paired, DeleteValues, Goto
<1>3. Addressed'
  BY DEF LifecycleInv, Addressed, DeleteValues, Goto, Object, Delete
<1>4. KeptApart'
  BY DEF LifecycleInv, Addressed, KeptApart, DeleteValues, Goto, Quiet, Pointer, Delete
<1>5. KeptAlone'
  BY DEF LifecycleInv, LifecycleTypeOK, KeptAlone, DeleteValues, Goto, Opening, Object,
         Objects, Pointer, Delete
<1>6. CallsAtHome'
  BY DEF LifecycleInv, Addressed, KeptAlone, CallsAtHome, DeleteValues, Opening, Pointer,
         Delete
<1> QED  BY <1>1, <1>2, <1>3, <1>4, <1>5, <1>6 DEF LifecycleInv

LEMMA StepNullValues ==
  ASSUME LifecycleInv, NullValues
  PROVE  LifecycleInv'
<1>1. LifecycleTypeOK'
  BY DEF LifecycleInv, LifecycleTypeOK, NullValues, Goto, habits
<1>2. Paired'
  BY DEF LifecycleInv, Paired, NullValues, Goto, Opening
<1>3. Addressed'
  BY DEF LifecycleInv, Addressed, NullValues, Goto
<1>4. KeptApart'
  BY DEF LifecycleInv, KeptApart, NullValues, Goto, Quiet, habits
<1>5. KeptAlone'
  BY DEF LifecycleInv, KeptAlone, NullValues, Goto, habits, Opening
<1>6. CallsAtHome'
  BY DEF LifecycleInv, KeptApart, CallsAtHome, NullValues, Goto, Quiet, habits
<1> QED  BY <1>1, <1>2, <1>3, <1>4, <1>5, <1>6 DEF LifecycleInv

LEMMA StepDeleteIndex ==
  ASSUME LifecycleInv, DeleteIndex
  PROVE  LifecycleInv'
<1>1. LifecycleTypeOK'
  BY DEF LifecycleInv, LifecycleTypeOK, DeleteIndex, Goto, habits, Delete
<1>2. Paired'
  BY DEF LifecycleInv, Paired, DeleteIndex, Goto, Opening
<1>3. Addressed'
  BY DEF LifecycleInv, Paired, Addressed, DeleteIndex, Goto
<1>4. KeptApart'
  BY DEF LifecycleInv, Addressed, KeptApart, DeleteIndex, Goto, Quiet, habits, Pointer,
         Delete
<1>5. KeptAlone'
  BY DEF LifecycleInv, KeptAlone, DeleteIndex, Goto, habits, Opening, Pointer, Delete
<1>6. CallsAtHome'
  BY DEF LifecycleInv, KeptAlone, CallsAtHome, DeleteIndex, Goto, habits, Pointer, Delete
<1> QED  BY <1>1, <1>2, <1>3, <1>4, <1>5, <1>6 DEF LifecycleInv

LEMMA StepNullIndex ==
  ASSUME LifecycleInv, NullIndex
  PROVE  LifecycleInv'
<1>1. LifecycleTypeOK'
  BY DEF LifecycleInv, LifecycleTypeOK, NullIndex, Goto, habits
<1>2. Paired'
  BY DEF LifecycleInv, Paired, NullIndex, Goto, Opening
<1>3. Addressed'
  BY DEF LifecycleInv, Addressed, NullIndex, Goto
<1>4. KeptApart'
  BY DEF LifecycleInv, KeptApart, NullIndex, Goto, habits
<1>5. KeptAlone'
  BY DEF LifecycleInv, Addressed, KeptAlone, NullIndex, Goto, habits, Opening
<1>6. CallsAtHome'
  BY DEF LifecycleInv, CallsAtHome, NullIndex, habits
<1> QED  BY <1>1, <1>2, <1>3, <1>4, <1>5, <1>6 DEF LifecycleInv

LEMMA StepCall ==
  ASSUME LifecycleInv, NEW t \in Callers, NEW e \in Engines, Call(t, e)
  PROVE  LifecycleInv'
<1>1. LifecycleTypeOK'
  <2>1. todo' \in [Callers -> Seq(Fields)]
    <3>1. \A fields \in Orders : fields \in Seq(Fields)  BY SMTT(30) DEF Orders, Fields
    <3>2. QED  BY <3>1 DEF LifecycleInv, LifecycleTypeOK, Call
  <2>2. QED  BY <2>1 DEF LifecycleInv, LifecycleTypeOK, Call, Opening, pointers
<1>2. Paired'
  BY DEF LifecycleInv, Paired, Call, pointers
<1>3. Addressed'
  BY DEF LifecycleInv, Addressed, Call, pointers
<1>4. KeptApart'
  BY DEF LifecycleInv, LifecycleTypeOK, KeptApart, Call
<1>5. KeptAlone'
  BY DEF LifecycleInv, KeptAlone, Call, pointers, Objects
<1>6. CallsAtHome'
  BY DEF LifecycleInv, LifecycleTypeOK, KeptAlone, CallsAtHome, Call, pointers
<1> QED  BY <1>1, <1>2, <1>3, <1>4, <1>5, <1>6 DEF LifecycleInv

LEMMA StepFollow ==
  ASSUME LifecycleInv, NEW t \in Callers, Follow(t)
  PROVE  LifecycleInv'
<1>1. LifecycleTypeOK'
  BY DEF LifecycleInv, LifecycleTypeOK, Follow, pointers, habits, Object, Pointer
<1>2. Paired'
  BY DEF LifecycleInv, Paired, Follow, pointers
<1>3. Addressed'
  BY DEF LifecycleInv, Addressed, Follow, pointers
<1>4. KeptApart'
  BY DEF LifecycleInv, LifecycleTypeOK, Paired, Addressed, KeptApart, Follow, Quiet, habits,
         Fields, Object, Pointer
<1>5. KeptAlone'
  BY DEF LifecycleInv, KeptAlone, Follow, pointers, habits, Objects
<1>6. CallsAtHome'
  BY DEF LifecycleInv, LifecycleTypeOK, Paired, Addressed, KeptApart, CallsAtHome, Follow,
         Quiet, pointers, habits, Fields, Pointer
<1> QED  BY <1>1, <1>2, <1>3, <1>4, <1>5, <1>6 DEF LifecycleInv

LEMMA StepCallReturns ==
  ASSUME LifecycleInv, NEW t \in Callers, CallReturns(t)
  PROVE  LifecycleInv'
<1>1. LifecycleTypeOK'
  BY DEF LifecycleInv, LifecycleTypeOK, CallReturns, pointers, habits, Objects
<1>2. Paired'
  BY DEF LifecycleInv, Paired, CallReturns, pointers
<1>3. Addressed'
  BY DEF LifecycleInv, Addressed, CallReturns, pointers
<1>4. KeptApart'
  BY DEF LifecycleInv, KeptApart, CallReturns, Quiet, habits
<1>5. KeptAlone'
  BY DEF LifecycleInv, KeptAlone, CallReturns, pointers, habits, Objects
<1>6. CallsAtHome'
  BY DEF LifecycleInv, CallsAtHome, CallReturns, pointers, habits
<1> QED  BY <1>1, <1>2, <1>3, <1>4, <1>5, <1>6 DEF LifecycleInv

LEMMA LifecycleStutter ==
  ASSUME LifecycleInv, UNCHANGED lvars
  PROVE  LifecycleInv'
  BY ZenonT(60) DEF LifecycleInv, LifecycleTypeOK, Paired, Addressed, KeptApart, KeptAlone, CallsAtHome,
         lvars, Quiet, Object, Objects

\* The inductive invariant, for every way to open, call and delete engines.
THEOREM LifecycleCorrect == LifecycleSpec => []LifecycleInv
<1>1. LifecycleInit => LifecycleInv
  BY LifecycleInitInv
<1>2. LifecycleInv /\ [LifecycleNext]_lvars => LifecycleInv'
  BY StepBeginOpen, StepNewValueResources, StepNewIndex, StepDeleteValues, StepNullValues,
     StepDeleteIndex, StepNullIndex, StepCall, StepFollow, StepCallReturns, LifecycleStutter
  DEF LifecycleNext
<1> QED  BY <1>1, <1>2, PTL DEF LifecycleSpec

\* ~EngineRace resets the pointers in time: however many engines share them,
\* no call and no delete uses what was deleted, if calls keep apart from
\* Open and delete.
THEOREM NothingFreedIsUsed == LifecycleSpec => []NoFreedUse
<1>1. LifecycleInv => NoFreedUse
  BY DEF LifecycleInv, KeptApart, NoFreedUse
<1> QED  BY <1>1, LifecycleCorrect, PTL

\* Write and Read find the index beside the value files it was opened with.
THEOREM OneOpenForBoth == LifecycleSpec => []OneOpenPerCall
<1>1. LifecycleInv => OneOpenPerCall
  <2> SUFFICES ASSUME LifecycleInv, apart, fate = "runs", NEW t \in Callers, owner[t] # 0
               PROVE  \E n \in owner[t] .. opens : \A o \in seen[t] : o.open = n
    BY DEF OneOpenPerCall
  <2>1. opens \in owner[t] .. opens
    BY DEF LifecycleInv, LifecycleTypeOK
  <2>2. \A o \in seen[t] : o.open = opens
    BY DEF LifecycleInv, KeptApart
  <2> QED  BY <2>1, <2>2
<1> QED  BY <1>1, LifecycleCorrect, PTL

\* The habits of main.cc are enough: Open, calls and delete of one engine
\* after the other neither meet a null pointer nor another engine's files,
\* and leave nothing behind.
THEOREM OneEngineIsSafe == LifecycleSpec => []AloneIsSafe
<1>1. LifecycleInv => AloneIsSafe
  <2> SUFFICES ASSUME LifecycleInv, apart, alone  PROVE AloneIsSafe
    BY DEF AloneIsSafe
  <2>1. fate = "runs"
    BY DEF LifecycleInv, CallsAtHome
  <2>2. \A t \in Callers : owner[t] # 0 => \A o \in seen[t] : o.open = owner[t]
    BY <2>1 DEF LifecycleInv, KeptApart, CallsAtHome
  <2>3. main = "idle" /\ (\A e \in Engines : engine[e] = 0) => live = {}
    BY DEF LifecycleInv, KeptAlone
  <2> QED  BY <2>1, <2>2, <2>3 DEF AloneIsSafe
<1> QED  BY <1>1, LifecycleCorrect, PTL
=============================================================================
