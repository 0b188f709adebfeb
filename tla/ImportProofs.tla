---------------------------- MODULE ImportProofs ----------------------------
(***************************************************************************)
(* Proofs about importing: the bodies under way, the one module of a name, *)
(* the files that are found, and that import implements ImportSpec.        *)
(***************************************************************************)
EXTENDS ImportProps, SequenceTheorems, FiniteSetTheorems, TLAPS

-----------------------------------------------------------------------------
(* The stack. *)

LEMMA TopFacts ==
  ASSUME NEW s \in Seq(Frames), s # <<>>
  PROVE  Len(s) \in Nat \ {0} /\ s[Len(s)] \in Frames
<1>1. Len(s) \in Nat \ {0}
  BY EmptySeq
<1>2. Len(s) \in 1 .. Len(s)
  BY <1>1
<1> QED
  BY <1>1, <1>2, ElementOfSeq

LEMMA WithTopFacts ==
  ASSUME stack \in Seq(Frames), stack # <<>>, NEW f \in Frames
  PROVE  /\ WithTop(f) \in Seq(Frames)
         /\ Len(WithTop(f)) = Len(stack)
         /\ \A i \in 1 .. Len(stack) : WithTop(f)[i] = IF i = Len(stack) THEN f ELSE stack[i]
<1>1. Len(stack) \in 1 .. Len(stack)
  BY EmptySeq
<1> QED
  BY <1>1, ExceptSeq DEF WithTop

LEMMA BelowFacts ==
  ASSUME stack \in Seq(Frames), stack # <<>>
  PROVE  /\ Below \in Seq(Frames)
         /\ Len(Below) = Len(stack) - 1
         /\ \A i \in 1 .. Len(stack) - 1 : Below[i] = stack[i]
<1>1. Len(stack) \in Nat \ {0}
  BY EmptySeq
<1>2. stack \in [1 .. Len(stack) -> Frames]
  BY LenProperties
<1> DEFINE n == Len(stack) - 1
<1>3. n \in Nat /\ n \in Int /\ 1 \in Int
  BY <1>1
<1>4. \A i \in 1 .. n : stack[i] \in Frames
  BY <1>1, <1>2
<1> HIDE DEF n
<1>5. /\ SubSeq(stack, 1, n) \in Seq(Frames)
      /\ Len(SubSeq(stack, 1, n)) = IF 1 <= n THEN n - 1 + 1 ELSE 0
      /\ \A i \in 1 .. n - 1 + 1 : SubSeq(stack, 1, n)[i] = stack[1 + i - 1]
  BY <1>3, <1>4, SubSeqProperties
<1>6. /\ SubSeq(stack, 1, n) \in Seq(Frames)
      /\ Len(SubSeq(stack, 1, n)) = n
      /\ \A i \in 1 .. n : SubSeq(stack, 1, n)[i] = stack[i]
  BY <1>3, <1>5
<1> QED
  BY <1>6 DEF Below, n

LEMMA AppendFacts ==
  ASSUME NEW S, NEW s \in Seq(S), NEW e \in S
  PROVE  /\ Append(s, e) \in Seq(S)
         /\ Len(Append(s, e)) = Len(s) + 1
         /\ \A i \in 1 .. Len(s) : Append(s, e)[i] = s[i]
         /\ Append(s, e)[Len(s) + 1] = e
BY AppendProperties

LEMMA TopTyped ==
  ASSUME TypeOK, stack # <<>>
  PROVE  /\ Top \in Frames /\ FrameOK(Top, objects)
         /\ stack \in Seq(Frames)
         /\ Len(stack) \in Nat \ {0} /\ DOMAIN stack = 1 .. Len(stack)
<1>1. stack \in Seq(Frames)
  BY DEF TypeOK
<1>2. Len(stack) \in Nat \ {0} /\ stack[Len(stack)] \in Frames
  BY <1>1, TopFacts
<1>3. DOMAIN stack = 1 .. Len(stack)
  BY <1>1, LenProperties
<1>4. Len(stack) \in DOMAIN stack
  BY <1>2, <1>3
<1> QED
  BY <1>1, <1>2, <1>3, <1>4 DEF Top, TypeOK

LEMMA StackTyped ==
  ASSUME TypeOK
  PROVE  /\ stack \in Seq(Frames) /\ Len(stack) \in Nat /\ DOMAIN stack = 1 .. Len(stack)
         /\ \A i \in 1 .. Len(stack) : stack[i] \in Frames /\ FrameOK(stack[i], objects)
<1>1. stack \in Seq(Frames)
  BY DEF TypeOK
<1>2. Len(stack) \in Nat /\ stack \in [1 .. Len(stack) -> Frames] /\ DOMAIN stack = 1 .. Len(stack)
  BY <1>1, LenProperties
<1> QED
  BY <1>1, <1>2 DEF TypeOK

LEMMA ObjectsTyped ==
  ASSUME TypeOK
  PROVE  /\ objects \in Seq(Modules) /\ Len(objects) \in Nat /\ DOMAIN objects = 1 .. Len(objects)
         /\ \A m \in 1 .. Len(objects) : objects[m] \in Modules
         /\ \A n \in Names : modules[n] \in 0 .. Len(objects)
<1>1. objects \in Seq(Modules)
  BY DEF TypeOK
<1>2. Len(objects) \in Nat /\ objects \in [1 .. Len(objects) -> Modules] /\ DOMAIN objects = 1 .. Len(objects)
  BY <1>1, LenProperties
<1> QED
  BY <1>1, <1>2 DEF TypeOK

LEMMA InitiallyTyped == Init => TypeOK
<1> SUFFICES ASSUME Init PROVE TypeOK
  OBVIOUS
<1>1. modules = [n \in Names |-> 0] /\ unwinding = "none" /\ changes = 0 /\ present \subseteq Files
  BY DEF Init
<1>2. changes \in 0 .. MaxChanges
  BY <1>1, BoundsAssumption
<1>3. CASE objects = <<[name |-> Main, state |-> "running"]>> /\ stack = <<Frame(Main, "body", 0, 1, TRUE)>>
  <2>1. [name |-> Main, state |-> "running"] \in Modules
    BY DEF Modules
  <2>2. objects \in Seq(Modules) /\ Len(objects) = 1 /\ DOMAIN objects = {1} /\ objects[1].name = Main
    BY <1>3, <2>1
  <2> DEFINE f == Frame(Main, "body", 0, 1, TRUE)
  <2>0. 0 \in 0 .. Dirs + 1 /\ Main \in Names \cup {Main} /\ 1 \in Nat /\ 0 \in Nat
    BY DirsAssumption
  <2>3. f \in Frames /\ f.name = Main /\ f.at = "body" /\ f.module = 1 /\ f.calls = 0
    BY <2>0 DEF Frames, Frame
  <2> HIDE DEF f
  <2>4. MaxCalls[Main] \in Nat
    BY BoundsAssumption
  <2>c. f.calls \in 0 .. MaxCalls[f.name]
    BY <2>3, <2>4
  <2>5. FrameOK(f, objects)
    BY <2>2, <2>3, <2>c DEF FrameOK
  <2>a. stack = <<f>>
    BY <1>3 DEF f
  <2>6. stack \in Seq(Frames) /\ DOMAIN stack = {1} /\ stack[1] = f
    BY <2>a, <2>3
  <2>b. 0 \in 0 .. Len(objects)
    BY <2>2
  <2>7. modules \in [Names -> 0 .. Len(objects)]
    BY <1>1, <2>b
  <2>8. stack \in Seq(Frames) /\ \A i \in DOMAIN stack : FrameOK(stack[i], objects)
    BY <2>5, <2>6
  <2> QED
    BY <1>1, <1>2, <2>2, <2>7, <2>8 DEF TypeOK
<1>4. CASE objects = <<>> /\ \E n \in Names : stack = <<Frame(n, "find", 1, 0, FALSE)>>
  <2>1. PICK n \in Names : stack = <<Frame(n, "find", 1, 0, FALSE)>>
    BY <1>4
  <2>2. objects \in Seq(Modules) /\ Len(objects) = 0
    BY <1>4, EmptySeq
  <2> DEFINE f == Frame(n, "find", 1, 0, FALSE)
  <2>3. f \in Frames /\ f.name = n /\ f.at = "find" /\ f.calls = 0
    BY DirsAssumption DEF Frames, Frame
  <2> HIDE DEF f
  <2>4. MaxCalls[n] \in Nat
    BY BoundsAssumption
  <2>c. f.calls \in 0 .. MaxCalls[f.name]
    BY <2>3, <2>4
  <2>5. FrameOK(f, objects)
    BY <2>3, <2>c DEF FrameOK
  <2>a. stack = <<f>>
    BY <2>1 DEF f
  <2>6. stack \in Seq(Frames) /\ DOMAIN stack = {1} /\ stack[1] = f
    BY <2>a, <2>3
  <2>b. 0 \in 0 .. Len(objects)
    BY <2>2
  <2>7. modules \in [Names -> 0 .. Len(objects)]
    BY <1>1, <2>b
  <2>8. stack \in Seq(Frames) /\ \A i \in DOMAIN stack : FrameOK(stack[i], objects)
    BY <2>5, <2>6
  <2> QED
    BY <1>1, <1>2, <2>2, <2>7, <2>8 DEF TypeOK
<1> QED
  BY <1>3, <1>4 DEF Init

-----------------------------------------------------------------------------
(* What a step does to the bodies under way: nothing, but for calls that    *)
(* look for a file, a body that begins, and a frame that ends.              *)

Like(f, g) ==
  f.name = g.name /\ f.loads = g.loads /\ f.module = g.module /\ (f.at = "body" <=> g.at = "body")
Alike(s, t) == \A i \in 1 .. Len(t) : Like(s[i], t[i])

KeepsBodies ==
  /\ Len(stack') = Len(stack) /\ Alike(stack', stack)
  /\ UNCHANGED <<modules, objects>>
OpensFrame ==
  /\ stack # <<>> /\ Top.at = "body"
  /\ Len(stack') = Len(stack) + 1 /\ Alike(stack', stack)
  /\ stack'[Len(stack) + 1].at # "body"
  /\ stack'[Len(stack) + 1].loads \/ modules[stack'[Len(stack) + 1].name] = 0
  /\ UNCHANGED <<modules, objects>>
ClosesFrame ==
  /\ stack # <<>>
  /\ \E state \in {"done", "failed"} : Left(state)
  /\ UNCHANGED modules

\* A stack like the one there was, typed frame by frame, types the next state.
LEMMA TypedAgain ==
  ASSUME TypeOK, stack' \in Seq(Frames),
         \A i \in 1 .. Len(stack') : FrameOK(stack'[i], objects),
         UNCHANGED <<present, modules, objects>>,
         unwinding' \in {"none", "find", "open", "compile", "error"}, changes' \in 0 .. MaxChanges
  PROVE  TypeOK'
<1>1. DOMAIN stack' = 1 .. Len(stack')
  BY LenProperties
<1> QED
  BY <1>1 DEF TypeOK

LEMMA CalledFacts ==
  ASSUME TypeOK, CanCall, NEW rescues \in BOOLEAN
  PROVE  /\ stack # <<>> /\ Top.at = "body"
         /\ Called(rescues) \in Seq(Frames) /\ Len(Called(rescues)) = Len(stack)
         /\ Alike(Called(rescues), stack)
         /\ \A i \in 1 .. Len(stack) : FrameOK(Called(rescues)[i], objects)
<1>1. stack # <<>> /\ Top.at = "body" /\ Top.calls < MaxCalls[Top.name]
  BY DEF CanCall, InBody, Running
<1>2. Top \in Frames /\ FrameOK(Top, objects) /\ stack \in Seq(Frames) /\ Len(stack) \in Nat \ {0}
  BY <1>1, TopTyped
<1> DEFINE f == [Top EXCEPT !.calls = @ + 1, !.rescues = rescues]
<1>3. Top.calls \in Nat /\ Top.name \in Names \cup {Main}
  BY <1>2 DEF Frames
<1>4. MaxCalls[Top.name] \in Nat
  BY <1>3, BoundsAssumption
<1>a. Top.calls + 1 \in Nat
  BY <1>3
<1>b. f \in Frames
  BY <1>2, <1>a DEF Frames
<1>c. /\ f.name = Top.name /\ f.loads = Top.loads /\ f.module = Top.module /\ f.at = Top.at
      /\ f.calls = Top.calls + 1
  BY <1>2 DEF Frames
<1>5. f \in Frames /\ Like(f, Top) /\ f.at = Top.at /\ f.calls = Top.calls + 1
  BY <1>b, <1>c DEF Like
<1>6. f.calls \in 0 .. MaxCalls[f.name]
  BY <1>1, <1>3, <1>4, <1>5 DEF Like
<1>7. FrameOK(f, objects)
  BY <1>1, <1>2, <1>5, <1>6 DEF FrameOK, Like
<1> HIDE DEF f
<1>8. /\ WithTop(f) \in Seq(Frames) /\ Len(WithTop(f)) = Len(stack)
      /\ \A i \in 1 .. Len(stack) : WithTop(f)[i] = IF i = Len(stack) THEN f ELSE stack[i]
  BY <1>1, <1>2, <1>5, WithTopFacts
<1>9. \A i \in 1 .. Len(stack) : FrameOK(stack[i], objects)
  BY StackTyped
<1>10. \A i \in 1 .. Len(stack) : Like(WithTop(f)[i], stack[i]) /\ FrameOK(WithTop(f)[i], objects)
  BY <1>5, <1>7, <1>8, <1>9 DEF Like, Top
<1>11. Called(rescues) = WithTop(f)
  BY DEF Called, f
<1> QED
  BY <1>1, <1>8, <1>10, <1>11 DEF Alike

LEMMA ImportKnownStep ==
  ASSUME TypeOK, NEW n \in Names, ImportKnown(n)
  PROVE  TypeOK' /\ KeepsBodies
<1>1. stack' = Called(FALSE) /\ CanCall /\ UNCHANGED <<present, modules, objects, unwinding, changes>>
  BY DEF ImportKnown
<1>2. /\ Called(FALSE) \in Seq(Frames) /\ Len(Called(FALSE)) = Len(stack) /\ Alike(Called(FALSE), stack)
      /\ \A i \in 1 .. Len(stack) : FrameOK(Called(FALSE)[i], objects)
  BY <1>1, CalledFacts
<1>3. unwinding' \in {"none", "find", "open", "compile", "error"} /\ changes' \in 0 .. MaxChanges
  BY <1>1 DEF TypeOK
<1> QED
  BY <1>1, <1>2, <1>3, TypedAgain DEF KeepsBodies

\* A call puts the frame of import or load on the body that makes it.
LEMMA PushedFacts ==
  ASSUME TypeOK, CanCall, NEW rescues \in BOOLEAN, NEW f \in Frames,
         FrameOK(f, objects), f.at # "body", f.loads \/ modules[f.name] = 0,
         stack' = Append(Called(rescues), f),
         UNCHANGED <<present, modules, objects, unwinding, changes>>
  PROVE  TypeOK' /\ OpensFrame
<1> DEFINE s == Called(rescues)
<1>1. /\ stack # <<>> /\ Top.at = "body"
      /\ s \in Seq(Frames) /\ Len(s) = Len(stack) /\ Alike(s, stack)
      /\ \A i \in 1 .. Len(stack) : FrameOK(s[i], objects)
  BY CalledFacts
<1> HIDE DEF s
<1>2. /\ stack' \in Seq(Frames) /\ Len(stack') = Len(s) + 1
      /\ \A i \in 1 .. Len(s) : stack'[i] = s[i]
      /\ stack'[Len(s) + 1] = f
  BY <1>1, AppendFacts DEF s
<1>3. Len(stack) \in Nat
  BY StackTyped
<1>4. \A i \in 1 .. Len(stack') : FrameOK(stack'[i], objects)
  <2> SUFFICES ASSUME NEW i \in 1 .. Len(stack') PROVE FrameOK(stack'[i], objects)
    OBVIOUS
  <2>1. i \in 1 .. Len(stack) \/ i = Len(stack) + 1
    BY <1>1, <1>2, <1>3
  <2> QED
    BY <2>1, <1>1, <1>2
<1>5. unwinding' \in {"none", "find", "open", "compile", "error"} /\ changes' \in 0 .. MaxChanges
  BY DEF TypeOK
<1>6. Alike(stack', stack)
  BY <1>1, <1>2 DEF Alike
<1>7. TypeOK'
  BY <1>2, <1>4, <1>5, TypedAgain
<1> QED
  BY <1>1, <1>2, <1>6, <1>7 DEF OpensFrame

\* The frame of a search, and that of a file that is loaded.
LEMMA FindFrame ==
  ASSUME NEW n \in Names, NEW made, NEW f, f = Frame(n, "find", 1, 0, FALSE)
  PROVE  /\ f \in Frames /\ FrameOK(f, made)
         /\ f.name = n /\ f.at = "find" /\ f.loads = FALSE
<1>1. 1 \in 0 .. Dirs + 1 /\ 0 \in 0 .. MaxCalls[n]
  BY DirsAssumption, BoundsAssumption
<1>2. /\ f \in Frames
      /\ f.name = n /\ f.at = "find" /\ f.loads = FALSE /\ f.calls = 0
  BY <1>1 DEF Frames, Frame
<1>3. f.calls \in 0 .. MaxCalls[f.name]
  BY <1>1, <1>2, Zenon
<1> QED
  BY <1>2, <1>3 DEF FrameOK

LEMMA OpenFrame ==
  ASSUME NEW file \in Files, NEW made, NEW f, f = Frame(file[2], "open", file[1], 0, TRUE)
  PROVE  f \in Frames /\ FrameOK(f, made) /\ f.at = "open" /\ f.loads = TRUE
<1>1. PICK dir \in 1 .. Dirs, n \in Names : file = <<dir, n>>
  BY DEF Files
<1>2. dir \in 0 .. Dirs + 1 /\ 0 \in 0 .. MaxCalls[n]
  BY DirsAssumption, BoundsAssumption
<1>3. f = Frame(n, "open", dir, 0, TRUE)
  BY <1>1
<1>4. /\ f \in Frames
      /\ f.name = n /\ f.at = "open" /\ f.loads = TRUE /\ f.calls = 0 /\ f.dir = dir
  BY <1>2, <1>3 DEF Frames, Frame
<1>5. f.calls \in 0 .. MaxCalls[f.name]
  BY <1>2, <1>4, Zenon
<1>6. <<f.dir, f.name>> \in Files
  BY <1>4 DEF Files
<1> QED
  BY <1>4, <1>5, <1>6 DEF FrameOK

LEMMA ImportStartsStep ==
  ASSUME TypeOK, NEW n \in Names, NEW rescues \in BOOLEAN, ImportStarts(n, rescues)
  PROVE  TypeOK' /\ OpensFrame
<1> DEFINE f == Frame(n, "find", 1, 0, FALSE)
<1>1. f = Frame(n, "find", 1, 0, FALSE)
  OBVIOUS
<1>2. f \in Frames /\ FrameOK(f, objects) /\ f.name = n /\ f.at = "find" /\ f.loads = FALSE
  <2> HIDE DEF f
  <2> QED
    BY <1>1, FindFrame
<1> HIDE DEF f
<1>3. /\ CanCall /\ modules[n] = 0 /\ stack' = Append(Called(rescues), f)
      /\ UNCHANGED <<present, modules, objects, unwinding, changes>>
  BY DEF ImportStarts, f
<1> QED
  BY <1>2, <1>3, PushedFacts

LEMMA LoadStep ==
  ASSUME TypeOK, NEW file \in Loaded, NEW rescues \in BOOLEAN, Load(file, rescues)
  PROVE  TypeOK' /\ OpensFrame
<1> DEFINE f == Frame(file[2], "open", file[1], 0, TRUE)
<1>1. file \in Files
  BY LoadedAssumption
<1>2. f \in Frames /\ FrameOK(f, objects) /\ f.at = "open" /\ f.loads = TRUE
  <2>1. f = Frame(file[2], "open", file[1], 0, TRUE)
    OBVIOUS
  <2> HIDE DEF f
  <2> QED
    BY <1>1, <2>1, OpenFrame
<1> HIDE DEF f
<1>3. /\ CanCall /\ stack' = Append(Called(rescues), f)
      /\ UNCHANGED <<present, modules, objects, unwinding, changes>>
  BY DEF Load, f
<1> QED
  BY <1>2, <1>3, PushedFacts

LEMMA LeftObjects ==
  ASSUME TypeOK, stack # <<>>, NEW state \in {"done", "failed"}, Left(state)
  PROVE  /\ objects' \in Seq(Modules) /\ Len(objects') = Len(objects)
         /\ \A m \in 1 .. Len(objects) :
              /\ objects'[m].name = objects[m].name
              /\ objects'[m].state = IF Top.at = "body" /\ m = Top.module THEN state ELSE objects[m].state
<1>1. objects \in Seq(Modules) /\ Len(objects) \in Nat /\ \A m \in 1 .. Len(objects) : objects[m] \in Modules
  BY ObjectsTyped
<1>2. CASE Top.at # "body"
  BY <1>1, <1>2 DEF Left
<1>3. CASE Top.at = "body"
  <2>1. Top.module \in 1 .. Len(objects)
    BY <1>3, TopTyped, ObjectsTyped DEF FrameOK
  <2> DEFINE e == [objects[Top.module] EXCEPT !.state = state]
  <2>2. e \in Modules /\ e.name = objects[Top.module].name /\ e.state = state
    BY <1>1, <2>1 DEF Modules
  <2> HIDE DEF e
  <2>3. objects' = [objects EXCEPT ![Top.module] = e]
    BY <1>3 DEF Left, e
  <2>4. /\ objects' \in Seq(Modules) /\ Len(objects') = Len(objects)
        /\ \A m \in 1 .. Len(objects) : objects'[m] = IF m = Top.module THEN e ELSE objects[m]
    BY <1>1, <2>1, <2>2, <2>3, ExceptSeq
  <2> QED
    BY <1>3, <2>2, <2>4
<1> QED
  BY <1>2, <1>3

LEMMA LeftStep ==
  ASSUME TypeOK, stack # <<>>, NEW state \in {"done", "failed"}, Left(state),
         UNCHANGED <<present, modules, changes>>,
         unwinding' \in {"none", "find", "open", "compile", "error"}
  PROVE  TypeOK' /\ ClosesFrame
<1>1. /\ objects' \in Seq(Modules) /\ Len(objects') = Len(objects)
      /\ \A m \in 1 .. Len(objects) : objects'[m].name = objects[m].name
  BY LeftObjects
<1>2. /\ stack' \in Seq(Frames) /\ Len(stack') = Len(stack) - 1
      /\ \A i \in 1 .. Len(stack) - 1 : stack'[i] = stack[i]
  BY StackTyped, BelowFacts DEF Left
<1>3. /\ Len(stack) \in Nat /\ DOMAIN stack' = 1 .. Len(stack')
      /\ DOMAIN objects' = 1 .. Len(objects') /\ DOMAIN objects = 1 .. Len(objects)
  BY <1>1, <1>2, StackTyped, ObjectsTyped, LenProperties
<1>4. \A i \in 1 .. Len(stack') : FrameOK(stack[i], objects) /\ stack'[i] = stack[i]
  BY <1>2, <1>3, StackTyped
<1>5. \A i \in 1 .. Len(stack') : FrameOK(stack'[i], objects')
  <2>1. ASSUME NEW f, FrameOK(f, objects) PROVE FrameOK(f, objects')
    <3>1. f.at = "body" => f.module \in 1 .. Len(objects) /\ objects[f.module].name = f.name
      BY <1>3, <2>1 DEF FrameOK
    <3>2. f.at = "body" => f.module \in DOMAIN objects' /\ objects'[f.module].name = f.name
      BY <1>1, <1>3, <3>1
    <3> QED
      BY <2>1, <3>2, Zenon DEF FrameOK
  <2> QED
    BY <1>4, <2>1
<1>6. modules' \in [Names -> 0 .. Len(objects')] /\ present' \subseteq Files /\ changes' \in 0 .. MaxChanges
  BY <1>1 DEF TypeOK
<1>7. TypeOK'
  BY <1>1, <1>2, <1>3, <1>5, <1>6 DEF TypeOK
<1> QED
  BY <1>7 DEF ClosesFrame

\* A frame that is searching or opening stays one, with its name.
LEMMA ReplacedFacts ==
  ASSUME TypeOK, stack # <<>>, NEW f \in Frames, FrameOK(f, objects), Like(f, Top),
         stack' = WithTop(f), UNCHANGED <<present, modules, objects, unwinding, changes>>
  PROVE  TypeOK' /\ KeepsBodies
<1>1. stack \in Seq(Frames) /\ Len(stack) \in Nat \ {0} /\ \A i \in 1 .. Len(stack) : FrameOK(stack[i], objects)
  BY TopTyped, StackTyped
<1>2. /\ stack' \in Seq(Frames) /\ Len(stack') = Len(stack)
      /\ \A i \in 1 .. Len(stack) : stack'[i] = IF i = Len(stack) THEN f ELSE stack[i]
  BY <1>1, WithTopFacts
<1>3. \A i \in 1 .. Len(stack') : FrameOK(stack'[i], objects)
  BY <1>1, <1>2
<1>4. unwinding' \in {"none", "find", "open", "compile", "error"} /\ changes' \in 0 .. MaxChanges
  BY DEF TypeOK
<1>5. TypeOK'
  BY <1>2, <1>3, <1>4, TypedAgain
<1>6. Alike(stack', stack)
  BY <1>2 DEF Alike, Like, Top
<1> QED
  BY <1>2, <1>5, <1>6 DEF KeepsBodies

LEMMA SearchStep ==
  ASSUME TypeOK, Search
  PROVE  TypeOK' /\ KeepsBodies
<1>1. stack # <<>> /\ Top.at = "find" /\ ~(Top.dir > Dirs) /\ UNCHANGED <<present, modules, objects, unwinding, changes>>
  BY DEF Search, Searching, Running, After
<1>2. Top \in Frames /\ FrameOK(Top, objects)
  BY <1>1, TopTyped
<1>3. Top.dir \in 0 .. Dirs + 1 /\ Top.name \in Names
  BY <1>1, <1>2 DEF Frames, FrameOK
<1>4. CASE Readable(Top.dir, Top.name)
  <2> DEFINE f == [Top EXCEPT !.at = "open"]
  <2>1. f \in Frames
    BY <1>2 DEF Frames
  <2>2. /\ f.name = Top.name /\ f.loads = Top.loads /\ f.module = Top.module /\ f.at = "open"
        /\ f.calls = Top.calls /\ f.dir = Top.dir
    BY <1>2 DEF Frames
  <2>3. <<f.dir, f.name>> \in Files
    BY <1>4, <2>2 DEF Readable, TypeOK
  <2>4. FrameOK(f, objects) /\ Like(f, Top)
    BY <1>1, <1>2, <1>3, <2>2, <2>3 DEF FrameOK, Like
  <2>5. stack' = WithTop(f)
    BY <1>4 DEF Search
  <2> QED
    BY <1>1, <2>1, <2>4, <2>5, ReplacedFacts
<1>5. CASE ~Readable(Top.dir, Top.name)
  <2> DEFINE f == [Top EXCEPT !.dir = NextDir(@)]
  <2>0. NextDir(Top.dir) \in 0 .. Dirs + 1
    BY <1>1, <1>3, DirsAssumption DEF NextDir
  <2>1. f \in Frames
    BY <1>2, <2>0 DEF Frames
  <2>2. /\ f.name = Top.name /\ f.loads = Top.loads /\ f.module = Top.module /\ f.at = "find"
        /\ f.calls = Top.calls
    BY <1>1, <1>2 DEF Frames
  <2>4. FrameOK(f, objects) /\ Like(f, Top)
    BY <1>1, <1>2, <1>3, <2>2 DEF FrameOK, Like
  <2>5. stack' = WithTop(f)
    BY <1>5 DEF Search
  <2> QED
    BY <1>1, <2>1, <2>4, <2>5, ReplacedFacts
<1> QED
  BY <1>4, <1>5

LEMMA RescueStep ==
  ASSUME TypeOK, Rescue \/ Stopped \/ UNCHANGED vars
  PROVE  TypeOK' /\ KeepsBodies
<1>1. UNCHANGED <<present, modules, objects, stack, changes>> /\ unwinding' \in {"none", unwinding}
  BY DEF Rescue, Stopped, vars
<1>2. Alike(stack', stack)
  BY <1>1 DEF Alike, Like
<1> QED
  BY <1>1, <1>2 DEF TypeOK, KeepsBodies

LEMMA ChangeStep ==
  ASSUME TypeOK, NEW file \in Files, Change(file)
  PROVE  TypeOK' /\ KeepsBodies
<1> DEFINE g(i) == IF stack[i].at # "body" /\ stack[i].name = file[2] THEN [stack[i] EXCEPT !.quiet = FALSE] ELSE stack[i]
<1>1. /\ stack' = [i \in DOMAIN stack |-> g(i)]
      /\ changes < MaxChanges /\ changes' = changes + 1 /\ UNCHANGED <<modules, objects, unwinding>>
      /\ present' \subseteq present \cup {file}
  BY DEF Change
<1>2. DOMAIN stack = 1 .. Len(stack) /\ Len(stack) \in Nat
  BY StackTyped
<1>3. ASSUME NEW i \in 1 .. Len(stack)
      PROVE  /\ g(i) \in Frames /\ g(i).name = stack[i].name /\ g(i).at = stack[i].at /\ g(i).dir = stack[i].dir
             /\ g(i).module = stack[i].module /\ g(i).calls = stack[i].calls /\ g(i).loads = stack[i].loads
  <2>1. stack[i] \in Frames
    BY StackTyped
  <2>2. CASE stack[i].at # "body" /\ stack[i].name = file[2]
    <3>1. g(i) = [stack[i] EXCEPT !.quiet = FALSE]
      BY <2>2
    <3> QED
      BY <2>1, <3>1 DEF Frames
  <2> QED
    BY <2>1, <2>2
<1> HIDE DEF g
<1>4. stack' \in [1 .. Len(stack) -> Frames] /\ \A i \in 1 .. Len(stack) : stack'[i] = g(i)
  BY <1>1, <1>2, <1>3
<1>5. stack' \in Seq(Frames) /\ Len(stack') = Len(stack)
  BY <1>2, <1>4, SeqDef
<1>6. \A i \in 1 .. Len(stack') : FrameOK(stack'[i], objects)
  <2> SUFFICES ASSUME NEW i \in 1 .. Len(stack) PROVE FrameOK(g(i), objects)
    BY <1>4, <1>5
  <2>1. FrameOK(stack[i], objects)
    BY StackTyped
  <2> QED
    BY <1>3, <2>1 DEF FrameOK
<1>7. Alike(stack', stack)
  BY <1>3, <1>4 DEF Alike, Like
<1>8. changes' \in 0 .. MaxChanges
  BY <1>1, BoundsAssumption DEF TypeOK
<1>9. DOMAIN stack' = 1 .. Len(stack')
  BY <1>5, LenProperties
<1>10. TypeOK'
  BY <1>1, <1>5, <1>6, <1>8, <1>9 DEF TypeOK
<1> QED
  BY <1>1, <1>5, <1>7, <1>10 DEF KeepsBodies

LEMMA RunBodyFacts ==
  ASSUME TypeOK, RunBody
  PROVE  /\ stack # <<>> /\ Top.at = "open" /\ Top.name \in Names
         /\ stack' \in Seq(Frames) /\ Len(stack') = Len(stack)
         /\ \A i \in 1 .. Len(stack) - 1 : stack'[i] = stack[i]
         /\ LET f == stack'[Len(stack)] IN
              /\ f.at = "body" /\ f.name = Top.name /\ f.loads = Top.loads /\ f.module = Len(objects) + 1
              /\ f.calls = Top.calls
         /\ objects' \in Seq(Modules) /\ Len(objects') = Len(objects) + 1
         /\ \A m \in 1 .. Len(objects) : objects'[m] = objects[m]
         /\ objects'[Len(objects) + 1].name = Top.name /\ objects'[Len(objects) + 1].state = "running"
         /\ modules' = IF Top.loads THEN modules ELSE [modules EXCEPT ![Top.name] = Len(objects) + 1]
         /\ UNCHANGED <<present, unwinding, changes>>
<1>1. stack # <<>> /\ Top.at = "open"
  BY DEF RunBody, Opening, Running
<1>2. Top \in Frames /\ FrameOK(Top, objects) /\ stack \in Seq(Frames) /\ Len(stack) \in Nat \ {0}
  BY <1>1, TopTyped
<1>3. objects \in Seq(Modules) /\ Len(objects) \in Nat
  BY ObjectsTyped
<1>4. Top.name \in Names
  BY <1>1, <1>2 DEF FrameOK
<1> DEFINE f == [Top EXCEPT !.at = "body", !.dir = 0, !.quiet = TRUE, !.module = Len(objects) + 1]
           e == [name |-> Top.name, state |-> "running"]
<1>5. 0 \in 0 .. Dirs + 1 /\ Len(objects) + 1 \in Nat
  BY <1>3, DirsAssumption
<1>6. f \in Frames
  BY <1>2, <1>5 DEF Frames
<1>7. f.at = "body" /\ f.name = Top.name /\ f.loads = Top.loads /\ f.module = Len(objects) + 1 /\ f.calls = Top.calls
  BY <1>2 DEF Frames
<1>8. e \in Modules /\ e.name = Top.name /\ e.state = "running"
  BY <1>4 DEF Modules
<1> HIDE DEF f, e
<1>9. stack' = WithTop(f) /\ objects' = Append(objects, e)
  BY DEF RunBody, f, e
<1>10. /\ stack' \in Seq(Frames) /\ Len(stack') = Len(stack)
       /\ \A i \in 1 .. Len(stack) : stack'[i] = IF i = Len(stack) THEN f ELSE stack[i]
  BY <1>1, <1>2, <1>6, <1>9, WithTopFacts
<1>11. /\ objects' \in Seq(Modules) /\ Len(objects') = Len(objects) + 1
       /\ \A m \in 1 .. Len(objects) : objects'[m] = objects[m]
       /\ objects'[Len(objects) + 1] = e
  BY <1>3, <1>8, <1>9, AppendFacts
<1>12. stack'[Len(stack)] = f /\ \A i \in 1 .. Len(stack) - 1 : stack'[i] = stack[i]
  BY <1>2, <1>10
<1> QED
  BY <1>1, <1>4, <1>7, <1>8, <1>10, <1>11, <1>12 DEF RunBody, Registered

LEMMA RunBodyStep ==
  ASSUME TypeOK, RunBody
  PROVE  TypeOK'
<1>1. /\ Top \in Frames /\ FrameOK(Top, objects) /\ Len(stack) \in Nat \ {0}
      /\ \A i \in 1 .. Len(stack) : FrameOK(stack[i], objects)
  BY RunBodyFacts, TopTyped, StackTyped
<1>2. Len(objects) \in Nat /\ DOMAIN objects = 1 .. Len(objects) /\ \A n \in Names : modules[n] \in 0 .. Len(objects)
  BY ObjectsTyped
<1>3. DOMAIN objects' = 1 .. Len(objects) + 1 /\ DOMAIN stack' = 1 .. Len(stack)
  BY RunBodyFacts, LenProperties
<1>4. ASSUME NEW i \in 1 .. Len(stack) - 1
      PROVE  FrameOK(stack'[i], objects')
  <2>1. i \in 1 .. Len(stack) /\ stack'[i] = stack[i]
    BY <1>1, RunBodyFacts
  <2>2. FrameOK(stack[i], objects)
    BY <1>1, <2>1
  <2> QED
    BY <1>2, <1>3, <2>1, <2>2, RunBodyFacts DEF FrameOK
<1>5. FrameOK(stack'[Len(stack)], objects')
  <2>1. Len(objects) + 1 \in DOMAIN objects'
    BY <1>2, <1>3
  <2> QED
    BY <1>1, <2>1, RunBodyFacts DEF FrameOK
<1>6. \A i \in 1 .. Len(stack) : FrameOK(stack'[i], objects')
  BY <1>1, <1>4, <1>5
<1>7. modules \in [Names -> 0 .. Len(objects)] /\ modules' \in [Names -> 0 .. Len(objects')]
  <2>1. modules \in [Names -> 0 .. Len(objects)]
    BY DEF TypeOK
  <2>2. 0 .. Len(objects) \subseteq 0 .. Len(objects') /\ Len(objects) + 1 \in 0 .. Len(objects')
    BY <1>2, RunBodyFacts
  <2>3. modules' = modules \/ modules' = [modules EXCEPT ![Top.name] = Len(objects) + 1]
    BY RunBodyFacts
  <2> QED
    BY <2>1, <2>2, <2>3
<1> QED
  BY <1>3, <1>6, <1>7, RunBodyFacts DEF TypeOK

\* Every step has one of four shapes, and keeps the types.
LEMMA Shapes ==
  ASSUME TypeOK, [Next]_vars
  PROVE  /\ TypeOK'
         /\ KeepsBodies \/ OpensFrame \/ ClosesFrame \/ RunBody
<1> DEFINE kinds == {"none", "find", "open", "compile", "error"}
<1>0. unwinding \in kinds
  BY DEF TypeOK
<1>1. ASSUME NEW n \in Names, ImportKnown(n) PROVE TypeOK' /\ KeepsBodies
  BY <1>1, ImportKnownStep
<1>2. ASSUME NEW n \in Names, NEW rescues \in BOOLEAN, ImportStarts(n, rescues) PROVE TypeOK' /\ OpensFrame
  BY <1>2, ImportStartsStep
<1>3. ASSUME NEW file \in Loaded, NEW rescues \in BOOLEAN, Load(file, rescues) PROVE TypeOK' /\ OpensFrame
  BY <1>3, LoadStep
<1>4. CASE BodyEnds
  <2>1. stack # <<>> /\ Left("done") /\ UNCHANGED <<present, modules, unwinding, changes>>
    BY <1>4 DEF BodyEnds, InBody, Running
  <2> QED
    BY <1>0, <2>1, LeftStep
<1>5. CASE Raise
  <2>1. stack # <<>> /\ Left("failed") /\ unwinding' = "error" /\ UNCHANGED <<present, modules, changes>>
    BY <1>5 DEF Raise, InBody, Running
  <2> QED
    BY <2>1, LeftStep
<1>6. CASE NotFound \/ NotOpened \/ NotCompiled
  <2>1. stack # <<>> /\ (Fails("find") \/ Fails("open") \/ Fails("compile"))
    BY <1>6 DEF NotFound, NotOpened, NotCompiled, Searching, Opening, Running
  <2>2. Left("failed") /\ unwinding' \in kinds /\ UNCHANGED <<present, modules, changes>>
    BY <2>1 DEF Fails
  <2> QED
    BY <2>1, <2>2, LeftStep
<1>7. CASE PassOn
  <2>1. stack # <<>> /\ Left("failed") /\ UNCHANGED <<present, modules, unwinding, changes>>
    BY <1>7 DEF PassOn, Kept
  <2> QED
    BY <1>0, <2>1, LeftStep
<1>8. CASE Search
  BY <1>8, SearchStep
<1>9. CASE RunBody
  BY <1>9, RunBodyStep
<1>10. CASE Rescue \/ Stopped \/ UNCHANGED vars
  BY <1>10, RescueStep
<1>11. ASSUME NEW file \in Files, Change(file) PROVE TypeOK' /\ KeepsBodies
  BY <1>11, ChangeStep
<1> QED
  BY <1>1, <1>2, <1>3, <1>4, <1>5, <1>6, <1>7, <1>8, <1>9, <1>10, <1>11 DEF Next, Interpret

-----------------------------------------------------------------------------
(* The invariant: what the bodies under way and the registry have to do    *)
(* with each other.                                                        *)

\* A name is in the registry for the module of its body, and one that is being
\* looked for is not there yet: nothing else runs while it is.
Registry ==
  /\ \A n \in Names : modules[n] # 0 => objects[modules[n]].name = n
  /\ \A i \in 1 .. Len(stack) : stack[i].at = "body" /\ stack[i].loads =>
       \A n \in Names : modules[n] # stack[i].module
  /\ \A i \in 1 .. Len(stack) : stack[i].at = "body" /\ ~stack[i].loads =>
       stack[i].name \in Names /\ modules[stack[i].name] = stack[i].module
  /\ \A i \in 1 .. Len(stack) : stack[i].at # "body" /\ ~stack[i].loads => modules[stack[i].name] = 0

Inv == BodiesUnderWay /\ Registry

\* BodiesUnderWay, by the places of the stack.
LEMMA Bodies ==
  ASSUME TypeOK
  PROVE  BodiesUnderWay <=>
         /\ \A i \in 1 .. Len(stack) - 1 : stack[i].at = "body"
         /\ \A m \in 1 .. Len(objects) :
              objects[m].state = "running" <=> \E i \in 1 .. Len(stack) : stack[i].at = "body" /\ stack[i].module = m
         /\ \A i, j \in 1 .. Len(stack) : stack[i].at = "body" /\ stack[j].at = "body" /\ i # j =>
                                          stack[i].module # stack[j].module
BY StackTyped, ObjectsTyped DEF BodiesUnderWay

\* The same of the next state.
LEMMA BodiesAgain ==
  ASSUME TypeOK',
         \A i \in 1 .. Len(stack') - 1 : stack'[i].at = "body",
         \A m \in 1 .. Len(objects') :
           objects'[m].state = "running" <=> \E i \in 1 .. Len(stack') : stack'[i].at = "body" /\ stack'[i].module = m,
         \A i, j \in 1 .. Len(stack') : stack'[i].at = "body" /\ stack'[j].at = "body" /\ i # j =>
                                       stack'[i].module # stack'[j].module
  PROVE  BodiesUnderWay'
<1>1. DOMAIN stack' = 1 .. Len(stack') /\ DOMAIN objects' = 1 .. Len(objects')
  BY LenProperties DEF TypeOK
<1> QED
  BY <1>1 DEF BodiesUnderWay

LEMMA InitialInv == Init => Inv
<1> SUFFICES ASSUME Init PROVE Inv
  OBVIOUS
<1>1. TypeOK /\ \A n \in Names : modules[n] = 0
  BY InitiallyTyped DEF Init
<1>2. CASE objects = <<[name |-> Main, state |-> "running"]>> /\ stack = <<Frame(Main, "body", 0, 1, TRUE)>>
  <2>1. Len(stack) = 1 /\ stack[1].at = "body" /\ stack[1].module = 1 /\ stack[1].loads = TRUE
    BY <1>2 DEF Frame
  <2>2. Len(objects) = 1 /\ objects[1].state = "running"
    BY <1>2
  <2> QED
    BY <1>1, <2>1, <2>2, Bodies DEF Inv, Registry
<1>3. CASE objects = <<>> /\ \E n \in Names : stack = <<Frame(n, "find", 1, 0, FALSE)>>
  <2>1. PICK n \in Names : stack = <<Frame(n, "find", 1, 0, FALSE)>>
    BY <1>3
  <2>2. Len(stack) = 1 /\ stack[1].at = "find" /\ stack[1].name = n /\ stack[1].loads = FALSE
    BY <2>1 DEF Frame
  <2>3. Len(objects) = 0
    BY <1>3
  <2> QED
    BY <1>1, <2>2, <2>3, Bodies DEF Inv, Registry
<1> QED
  BY <1>2, <1>3 DEF Init

\* The same bodies, and perhaps a frame that looks for a file on top of them.
LEMMA SameBodiesKeepInv ==
  ASSUME Inv, TypeOK', UNCHANGED <<modules, objects>>, Alike(stack', stack),
         \/ Len(stack') = Len(stack)
         \/ /\ Len(stack') = Len(stack) + 1
            /\ Len(stack) > 0 => stack[Len(stack)].at = "body"
            /\ stack'[Len(stack) + 1].at # "body"
            /\ stack'[Len(stack) + 1].loads \/ modules[stack'[Len(stack) + 1].name] = 0
  PROVE  Inv'
<1>1. TypeOK /\ Len(stack) \in Nat
  BY StackTyped DEF Inv, BodiesUnderWay
<1>2. /\ \A i \in 1 .. Len(stack) - 1 : stack[i].at = "body"
      /\ \A m \in 1 .. Len(objects) :
           objects[m].state = "running" <=> \E i \in 1 .. Len(stack) : stack[i].at = "body" /\ stack[i].module = m
      /\ \A i, j \in 1 .. Len(stack) : stack[i].at = "body" /\ stack[j].at = "body" /\ i # j =>
                                       stack[i].module # stack[j].module
  BY <1>1, Bodies DEF Inv
<1>3. \A i \in 1 .. Len(stack) :
        /\ stack'[i].name = stack[i].name /\ stack'[i].loads = stack[i].loads
        /\ stack'[i].module = stack[i].module /\ (stack'[i].at = "body" <=> stack[i].at = "body")
  BY DEF Alike, Like
<1>4. \A i \in 1 .. Len(stack') : i \in 1 .. Len(stack) \/ stack'[i].at # "body"
  BY <1>1
<1>5. \A i \in 1 .. Len(stack) : i \in 1 .. Len(stack')
  BY <1>1
<1>6. \A i \in 1 .. Len(stack') - 1 : stack'[i].at = "body"
  BY <1>1, <1>2, <1>3
<1>7. ASSUME NEW m \in 1 .. Len(objects)
      PROVE  objects[m].state = "running" <=> \E i \in 1 .. Len(stack') : stack'[i].at = "body" /\ stack'[i].module = m
  BY SMTT(30), <1>2, <1>3, <1>4, <1>5
<1>8. \A i, j \in 1 .. Len(stack') : stack'[i].at = "body" /\ stack'[j].at = "body" /\ i # j =>
                                     stack'[i].module # stack'[j].module
  BY <1>2, <1>3, <1>4
<1>9. BodiesUnderWay'
  BY <1>6, <1>7, <1>8, BodiesAgain
<1>10. Registry'
  <2>1. \A i \in 1 .. Len(stack') : stack'[i].at # "body" /\ ~stack'[i].loads => modules[stack'[i].name] = 0
    <3> SUFFICES ASSUME NEW i \in 1 .. Len(stack'), stack'[i].at # "body", ~stack'[i].loads
                 PROVE  modules[stack'[i].name] = 0
      OBVIOUS
    <3>1. CASE i \in 1 .. Len(stack)
      BY <1>3, <3>1 DEF Inv, Registry
    <3>2. CASE i = Len(stack) + 1 /\ Len(stack') = Len(stack) + 1
      BY <1>1, <3>2
    <3> QED
      BY <1>1, <3>1, <3>2
  <2> QED
    BY <1>3, <1>4, <2>1 DEF Inv, Registry
<1> QED
  BY <1>9, <1>10 DEF Inv

LEMMA ClosesKeepsInv ==
  ASSUME Inv, TypeOK', ClosesFrame
  PROVE  Inv'
<1>1. TypeOK /\ stack # <<>>
  BY DEF Inv, BodiesUnderWay, ClosesFrame
<1>2. PICK state \in {"done", "failed"} : Left(state)
  BY DEF ClosesFrame
<1>3. /\ objects' \in Seq(Modules) /\ Len(objects') = Len(objects)
      /\ \A m \in 1 .. Len(objects) :
           /\ objects'[m].name = objects[m].name
           /\ objects'[m].state = IF Top.at = "body" /\ m = Top.module THEN state ELSE objects[m].state
  BY <1>1, <1>2, LeftObjects
<1>4. /\ Len(stack') = Len(stack) - 1 /\ Len(stack) \in Nat \ {0} /\ Top = stack[Len(stack)]
      /\ \A i \in 1 .. Len(stack) - 1 : stack'[i] = stack[i]
  BY <1>1, <1>2, TopTyped, BelowFacts DEF Left, Top
<1>5. /\ \A i \in 1 .. Len(stack) - 1 : stack[i].at = "body"
      /\ \A m \in 1 .. Len(objects) :
           objects[m].state = "running" <=> \E i \in 1 .. Len(stack) : stack[i].at = "body" /\ stack[i].module = m
      /\ \A i, j \in 1 .. Len(stack) : stack[i].at = "body" /\ stack[j].at = "body" /\ i # j =>
                                       stack[i].module # stack[j].module
  BY <1>1, Bodies DEF Inv
<1>6. \A i \in 1 .. Len(stack') : i \in 1 .. Len(stack) /\ i # Len(stack) /\ stack'[i] = stack[i]
  BY <1>4
<1>7. \A i \in 1 .. Len(stack) : i = Len(stack) \/ i \in 1 .. Len(stack')
  BY <1>4
<1>8. ASSUME NEW m \in 1 .. Len(objects)
      PROVE  objects'[m].state = "running" <=> \E i \in 1 .. Len(stack') : stack'[i].at = "body" /\ stack'[i].module = m
  <2>1. CASE Top.at = "body" /\ m = Top.module
    <3>1. objects'[m].state # "running"
      BY <1>3, <2>1
    <3>2. Len(stack) \in 1 .. Len(stack)
      BY <1>4
    <3>3. \A i \in 1 .. Len(stack') : ~(stack'[i].at = "body" /\ stack'[i].module = m)
      BY <1>4, <1>5, <1>6, <2>1, <3>2
    <3> QED
      BY <3>1, <3>3
  <2>2. CASE ~(Top.at = "body" /\ m = Top.module)
    <3>1. objects'[m].state = objects[m].state
      BY <1>3, <2>2
    <3>2. \A i \in 1 .. Len(stack) : stack[i].at = "body" /\ stack[i].module = m => i \in 1 .. Len(stack')
      BY <1>4, <1>7, <2>2
    <3>3. (\E i \in 1 .. Len(stack') : stack'[i].at = "body" /\ stack'[i].module = m) <=>
            \E i \in 1 .. Len(stack) : stack[i].at = "body" /\ stack[i].module = m
      BY <1>6, <3>2
    <3> QED
      BY <1>5, <3>1, <3>3
  <2> QED
    BY <2>1, <2>2
<1>9. BodiesUnderWay'
  <2>1. \A i \in 1 .. Len(stack') - 1 : stack'[i].at = "body"
    BY <1>4, <1>5
  <2>2. \A i, j \in 1 .. Len(stack') : stack'[i].at = "body" /\ stack'[j].at = "body" /\ i # j =>
                                       stack'[i].module # stack'[j].module
    BY <1>5, <1>6
  <2> QED
    BY <1>3, <1>8, <2>1, <2>2, BodiesAgain
<1>10. Registry'
  <2>1. UNCHANGED modules /\ \A n \in Names : modules[n] # 0 => modules[n] \in 1 .. Len(objects)
    BY <1>1, ObjectsTyped DEF ClosesFrame
  <2>2. \A n \in Names : modules[n] # 0 => objects'[modules[n]].name = n
    BY <1>3, <2>1 DEF Inv, Registry
  <2> QED
    BY <1>6, <2>1, <2>2 DEF Inv, Registry
<1> QED
  BY <1>9, <1>10 DEF Inv

LEMMA RunBodyKeepsInv ==
  ASSUME Inv, TypeOK', RunBody
  PROVE  Inv'
<1> DEFINE top == Len(stack)
           new == Len(objects) + 1
<1>1. TypeOK
  BY DEF Inv, BodiesUnderWay
<1>2. /\ stack # <<>> /\ Top.at = "open" /\ Top.name \in Names
      /\ Len(stack') = top
      /\ \A i \in 1 .. top - 1 : stack'[i] = stack[i]
      /\ stack'[top].at = "body" /\ stack'[top].name = Top.name /\ stack'[top].loads = Top.loads
      /\ stack'[top].module = new
      /\ Len(objects') = new
      /\ \A m \in 1 .. Len(objects) : objects'[m] = objects[m]
      /\ objects'[new].name = Top.name /\ objects'[new].state = "running"
      /\ modules' = IF Top.loads THEN modules ELSE [modules EXCEPT ![Top.name] = new]
  BY <1>1, RunBodyFacts
<1>3. top \in Nat \ {0} /\ Top = stack[top] /\ top \in 1 .. top /\ Len(objects) \in Nat
  BY <1>1, <1>2, TopTyped, ObjectsTyped DEF Top
<1> HIDE DEF top, new
<1>4. /\ \A i \in 1 .. top - 1 : stack[i].at = "body"
      /\ \A m \in 1 .. Len(objects) :
           objects[m].state = "running" <=> \E i \in 1 .. top : stack[i].at = "body" /\ stack[i].module = m
      /\ \A i, j \in 1 .. top : stack[i].at = "body" /\ stack[j].at = "body" /\ i # j =>
                                stack[i].module # stack[j].module
  BY <1>1, Bodies DEF Inv, top
<1>5. \A i \in 1 .. top - 1 : i \in 1 .. top /\ i # top
  BY <1>3
<1>6. \A i \in 1 .. top : i = top \/ i \in 1 .. top - 1
  BY <1>3
<1>7. \A i \in 1 .. top - 1 : stack[i].module \in 1 .. Len(objects)
  <2>1. DOMAIN objects = 1 .. Len(objects) /\ \A i \in 1 .. top : FrameOK(stack[i], objects)
    BY <1>1, StackTyped, ObjectsTyped DEF top
  <2> QED
    BY <1>4, <1>5, <2>1 DEF FrameOK
<1>8. new \notin 1 .. Len(objects) /\ \A m \in 1 .. new : m = new \/ m \in 1 .. Len(objects)
  BY <1>3 DEF new
<1>9. BodiesUnderWay'
  <2>1. \A i \in 1 .. Len(stack') - 1 : stack'[i].at = "body"
    BY <1>2, <1>4
  <2>2. ASSUME NEW m \in 1 .. Len(objects')
        PROVE  objects'[m].state = "running" <=> \E i \in 1 .. Len(stack') : stack'[i].at = "body" /\ stack'[i].module = m
    <3>1. CASE m = new
      BY <1>2, <1>3, <3>1
    <3>2. CASE m \in 1 .. Len(objects)
      <4>1. objects[m].state = "running" <=> \E i \in 1 .. top - 1 : stack[i].module = m
        BY <1>2, <1>3, <1>4, <1>5, <1>6, <3>2
      <4>2. (\E i \in 1 .. top : stack'[i].at = "body" /\ stack'[i].module = m) <=>
              \E i \in 1 .. top - 1 : stack[i].module = m
        <5>1. \A i \in 1 .. top - 1 : stack'[i].at = "body" /\ stack'[i].module = stack[i].module
          BY <1>2, <1>4
        <5>2. stack'[top].module # m
          BY <1>2, <1>8, <3>2
        <5> HIDE DEF top
        <5> QED
          BY <1>5, <1>6, <5>1, <5>2
      <4> QED
        BY <1>2, <3>2, <4>1, <4>2
    <3> QED
      BY <1>2, <1>8, <3>1, <3>2
  <2>3. ASSUME NEW i \in 1 .. Len(stack'), NEW j \in 1 .. Len(stack'), i # j
        PROVE  stack'[i].module # stack'[j].module
    <3>1. CASE i = top \/ j = top
      BY <1>2, <1>6, <1>7, <1>8, <2>3, <3>1
    <3>2. CASE i # top /\ j # top
      BY <1>2, <1>4, <1>5, <1>6, <2>3, <3>2
    <3> QED
      BY <3>1, <3>2
  <2> QED
    BY <2>1, <2>2, <2>3, BodiesAgain
<1>10. Registry'
  <2>1. \A n \in Names : modules[n] \in 0 .. Len(objects) /\ modules[n] # new /\ new # 0
    BY <1>1, <1>3, ObjectsTyped DEF new
  <2>2. modules \in [Names -> 0 .. Len(objects)]
    BY <1>1 DEF TypeOK
  <2>3. \A n \in Names : modules'[n] = IF n = Top.name /\ ~Top.loads THEN new ELSE modules[n]
    BY <1>2, <2>2
  <2>4. ~Top.loads => modules[Top.name] = 0
    BY <1>2, <1>3 DEF Inv, Registry, top
  <2>5. \A n \in Names : modules'[n] # 0 => objects'[modules'[n]].name = n
    <3> SUFFICES ASSUME NEW n \in Names, modules'[n] # 0 PROVE objects'[modules'[n]].name = n
      OBVIOUS
    <3>1. CASE n = Top.name /\ ~Top.loads
      BY <1>2, <2>3, <3>1
    <3>2. CASE ~(n = Top.name /\ ~Top.loads)
      <4>1. modules'[n] = modules[n] /\ modules[n] \in 1 .. Len(objects)
        BY <2>1, <2>3, <3>2, <1>3
      <4> QED
        BY <1>2, <4>1 DEF Inv, Registry
    <3> QED
      BY <3>1, <3>2
  <2>6. ASSUME NEW i \in 1 .. Len(stack'), stack'[i].at = "body", stack'[i].loads, NEW n \in Names
        PROVE  modules'[n] # stack'[i].module
    <3>1. CASE i = top
      BY <1>2, <2>1, <2>3, <2>6, <3>1
    <3>2. CASE i \in 1 .. top - 1
      <4>1. stack'[i] = stack[i] /\ modules[n] # stack[i].module /\ stack[i].module # new
        <5>1. stack'[i] = stack[i]
          BY <1>2, <3>2
        <5>2. stack[i].module # new
          BY <1>7, <1>8, <3>2
        <5>3. i \in 1 .. Len(stack) /\ stack[i].at = "body" /\ stack[i].loads
          BY <1>5, <2>6, <3>2, <5>1 DEF top
        <5>4. modules[n] # stack[i].module
          BY <5>3 DEF Inv, Registry
        <5> QED
          BY <5>1, <5>2, <5>4
      <4> QED
        BY <2>3, <4>1
    <3> QED
      BY <1>2, <1>6, <3>1, <3>2
  <2>7. ASSUME NEW i \in 1 .. Len(stack'), stack'[i].at = "body", ~stack'[i].loads
        PROVE  stack'[i].name \in Names /\ modules'[stack'[i].name] = stack'[i].module
    <3>1. CASE i = top
      BY <1>2, <2>3, <2>7, <3>1
    <3>2. CASE i \in 1 .. top - 1
      <4>1. stack'[i] = stack[i] /\ stack[i].name \in Names /\ modules[stack[i].name] = stack[i].module
        BY <1>2, <1>5, <2>7, <3>2 DEF Inv, Registry, top
      <4>2. stack[i].module # 0
        BY <1>3, <1>7, <3>2
      <4> QED
        BY <2>3, <2>4, <4>1, <4>2
    <3> QED
      BY <1>2, <1>6, <3>1, <3>2
  <2>8. \A i \in 1 .. Len(stack') : stack'[i].at = "body"
    BY <1>2, <1>4, <1>6
  <2> QED
    BY <2>5, <2>6, <2>7, <2>8 DEF Registry
<1> QED
  BY <1>9, <1>10 DEF Inv

\* Every step keeps the invariant.
LEMMA StepKeepsInv == Inv /\ [Next]_vars => Inv'
<1> SUFFICES ASSUME Inv, [Next]_vars PROVE Inv'
  OBVIOUS
<1>1. TypeOK
  BY DEF Inv, BodiesUnderWay
<1>2. TypeOK'
  BY <1>1, Shapes
<1>3. CASE KeepsBodies
  BY <1>2, <1>3, SameBodiesKeepInv DEF KeepsBodies
<1>4. CASE OpensFrame
  BY <1>2, <1>4, SameBodiesKeepInv DEF OpensFrame, Top
<1>5. CASE ClosesFrame
  BY <1>2, <1>5, ClosesKeepsInv
<1>6. CASE RunBody
  BY <1>2, <1>6, RunBodyKeepsInv
<1> QED
  BY <1>1, <1>3, <1>4, <1>5, <1>6, Shapes

LEMMA InvHolds == Spec => []Inv
<1> QED
  BY InitialInv, StepKeepsInv, PTL DEF Spec

\* The bodies under way are those of the modules that have not ended, and lie inside
\* each other, however bodies import, load, raise and rescue and files come and go
\* (import.cpp:46-151).
THEOREM BodiesLieInEachOther == Spec => []BodiesUnderWay
<1>1. Inv => BodiesUnderWay
  BY DEF Inv
<1> QED
  BY <1>1, InvHolds, PTL

-----------------------------------------------------------------------------
(* The module of a name.                                                   *)

\* What is registered stays registered.
LEMMA ModulesStay ==
  ASSUME Inv, [Next]_vars, NEW n \in Names, modules[n] # 0
  PROVE  modules'[n] = modules[n]
<1>1. TypeOK
  BY DEF Inv, BodiesUnderWay
<1>2. CASE UNCHANGED modules
  BY <1>2
<1>3. CASE RunBody
  <2>1. /\ stack # <<>> /\ Top.at = "open"
        /\ modules' = IF Top.loads THEN modules ELSE [modules EXCEPT ![Top.name] = Len(objects) + 1]
    BY <1>1, <1>3, RunBodyFacts
  <2>2. Len(stack) \in 1 .. Len(stack) /\ Top = stack[Len(stack)]
    BY <1>1, <2>1, TopTyped DEF Top
  <2>3. ~Top.loads => modules[Top.name] = 0
    BY <2>1, <2>2 DEF Inv, Registry
  <2>4. modules \in [Names -> 0 .. Len(objects)]
    BY <1>1 DEF TypeOK
  <2> QED
    BY <2>1, <2>3, <2>4
<1> QED
  BY <1>1, <1>2, <1>3, Shapes DEF KeepsBodies, OpensFrame, ClosesFrame

\* What was given of a name is the module that is registered for it.
GivenOfRegistry == \A n \in Names : given[n] \subseteq {modules[n]} /\ (modules[n] = 0 => given[n] = {})

LEMMA GivenStep ==
  ASSUME Inv, GivenOfRegistry, [Step]_<<vars, given>>
  PROVE  GivenOfRegistry'
<1> SUFFICES ASSUME NEW n \in Names
             PROVE  given'[n] \subseteq {modules'[n]} /\ (modules'[n] = 0 => given'[n] = {})
  BY DEF GivenOfRegistry
<1>0. TypeOK /\ [Next]_vars
  BY DEF Step, Inv, BodiesUnderWay
<1>1. given[n] \subseteq {modules[n]} /\ (modules[n] = 0 => given[n] = {})
  BY DEF GivenOfRegistry
<1>2. modules[n] # 0 => modules'[n] = modules[n]
  BY <1>0, ModulesStay
<1>3. ASSUME ImportKnown(n) PROVE modules[n] # 0
  BY <1>3 DEF ImportKnown
<1>4. ASSUME BodyEnds, ~Top.loads, Top.name = n PROVE modules[n] # 0 /\ Top.module = modules[n]
  <2>1. stack # <<>> /\ Top.at = "body"
    BY <1>4 DEF BodyEnds, InBody, Running
  <2>2. Top = stack[Len(stack)] /\ Len(stack) \in 1 .. Len(stack)
    BY <1>0, <2>1, TopTyped DEF Top
  <2>3. Top.module = modules[n]
    BY <1>4, <2>1, <2>2 DEF Inv, Registry
  <2>4. Top.module \in 1 .. Len(objects)
    BY <1>0, <2>1, TopTyped, ObjectsTyped DEF FrameOK
  <2> QED
    BY <2>3, <2>4
<1>5. CASE UNCHANGED <<vars, given>>
  BY <1>1, <1>5 DEF vars
<1>6. CASE Step
  <2> DEFINE known == IF ImportKnown(n) THEN {modules[n]} ELSE {}
             ended == IF BodyEnds /\ ~Top.loads /\ Top.name = n THEN {Top.module} ELSE {}
  <2>1. given'[n] = given[n] \cup known \cup ended
    BY <1>6 DEF Step
  <2>2. known \subseteq {modules[n]} /\ (modules[n] = 0 => known = {})
    BY <1>3
  <2>3. ended \subseteq {modules[n]} /\ (modules[n] = 0 => ended = {})
    BY <1>4
  <2> HIDE DEF known, ended
  <2>4. given'[n] \subseteq {modules[n]} /\ (modules[n] = 0 => given'[n] = {})
    BY <1>1, <2>1, <2>2, <2>3
  <2> QED
    BY <1>2, <2>4
<1> QED
  BY <1>5, <1>6

\* All the imports of a name that answer give the same module, whatever its body
\* does and however often it fails (import.cpp:83-151).
THEOREM AnswersAgree == Answers => []OneModulePerName
<1>1. AnswersInit => Inv /\ GivenOfRegistry
  BY InitialInv DEF AnswersInit, GivenOfRegistry
<1>2. Inv /\ GivenOfRegistry /\ [Step]_<<vars, given>> => (Inv /\ GivenOfRegistry)'
  <2>1. [Step]_<<vars, given>> => [Next]_vars
    BY DEF Step
  <2> QED
    BY <2>1, StepKeepsInv, GivenStep
<1>3. GivenOfRegistry => OneModulePerName
  <2> SUFFICES ASSUME GivenOfRegistry, NEW n \in Names PROVE Cardinality(given[n]) <= 1
    BY DEF OneModulePerName
  <2>1. given[n] \subseteq {modules[n]}
    BY DEF GivenOfRegistry
  <2>2. IsFiniteSet({modules[n]}) /\ Cardinality({modules[n]}) = 1
    BY FS_Singleton
  <2> QED
    BY <2>1, <2>2, FS_Subset
<1> QED
  BY <1>1, <1>2, <1>3, PTL DEF Answers

-----------------------------------------------------------------------------
(* The files that are found.                                               *)

\* The search that nobody disturbed has passed only directories without the file,
\* and the file it goes to open is there.
QuietSearch ==
  stack # <<>> /\ Top.quiet /\ ~Top.loads =>
    /\ Top.at = "find" => \A dir \in 1 .. Dirs : dir < Top.dir => <<dir, Top.name>> \notin present
    /\ Top.at = "open" => <<Top.dir, Top.name>> \in present

\* A body on top says nothing of files.
LEMMA BodyOnTopIsQuiet ==
  ASSUME TypeOK', Len(stack') # 0 => stack'[Len(stack')].at = "body" \/ stack'[Len(stack')].loads
  PROVE  QuietSearch'
<1>1. stack' # <<>> => Len(stack') # 0
  BY EmptySeq DEF TypeOK
<1> QED
  BY <1>1 DEF QuietSearch, Top

LEMMA QuietStep ==
  ASSUME Inv, QuietSearch, [Next]_vars
  PROVE  QuietSearch'
<1>1. TypeOK /\ TypeOK'
  BY Shapes DEF Inv, BodiesUnderWay
<1>2. Len(stack) \in Nat /\ \A i \in 1 .. Len(stack) - 1 : stack[i].at = "body"
  BY <1>1, StackTyped, Bodies DEF Inv
<1>3. ASSUME NEW n \in Names, ImportKnown(n) PROVE QuietSearch'
  <2>1. CanCall /\ KeepsBodies
    BY <1>1, <1>3, ImportKnownStep DEF ImportKnown
  <2>2. stack # <<>> /\ Top.at = "body"
    BY <1>1, <2>1, CalledFacts
  <2>3. Len(stack) \in 1 .. Len(stack) /\ Top = stack[Len(stack)]
    BY <1>1, <2>2, TopTyped DEF Top
  <2>4. stack'[Len(stack')].at = "body"
    BY <2>1, <2>2, <2>3 DEF KeepsBodies, Alike, Like
  <2> QED
    BY <1>1, <2>4, BodyOnTopIsQuiet
<1>4. ASSUME NEW n \in Names, NEW rescues \in BOOLEAN, ImportStarts(n, rescues) PROVE QuietSearch'
  <2> DEFINE f == Frame(n, "find", 1, 0, FALSE)
  <2>1. CanCall /\ stack' = Append(Called(rescues), f) /\ Called(rescues) \in Seq(Frames)
    BY <1>1, <1>4, CalledFacts DEF ImportStarts
  <2>2. f \in Frames /\ f.at = "find" /\ f.dir = 1
    BY DirsAssumption DEF Frames, Frame
  <2> HIDE DEF f
  <2>3. Len(stack') = Len(Called(rescues)) + 1 /\ stack'[Len(Called(rescues)) + 1] = f
    BY <2>1, <2>2, AppendFacts
  <2>4. Top' = f
    BY <2>3 DEF Top
  <2>5. \A dir \in 1 .. Dirs : ~(dir < 1)
    OBVIOUS
  <2> QED
    BY <2>2, <2>4, <2>5 DEF QuietSearch
<1>5. ASSUME NEW file \in Loaded, NEW rescues \in BOOLEAN, Load(file, rescues) PROVE QuietSearch'
  <2> DEFINE f == Frame(file[2], "open", file[1], 0, TRUE)
  <2>1. CanCall /\ stack' = Append(Called(rescues), f) /\ Called(rescues) \in Seq(Frames)
    BY <1>1, <1>5, CalledFacts DEF Load
  <2>2. file \in Files
    BY LoadedAssumption
  <2>3. f \in Frames /\ f.loads = TRUE
    <3>1. f = Frame(file[2], "open", file[1], 0, TRUE)
      OBVIOUS
    <3> HIDE DEF f
    <3> QED
      BY <2>2, <3>1, OpenFrame
  <2> HIDE DEF f
  <2>4. Len(stack') = Len(Called(rescues)) + 1 /\ stack'[Len(Called(rescues)) + 1] = f
    BY <2>1, <2>3, AppendFacts
  <2> QED
    BY <1>1, <2>3, <2>4, BodyOnTopIsQuiet
<1>6. CASE ClosesFrame
  <2>1. stack # <<>> /\ stack' = Below
    BY <1>6 DEF ClosesFrame, Left
  <2>2. Len(stack') = Len(stack) - 1 /\ \A i \in 1 .. Len(stack) - 1 : stack'[i] = stack[i]
    BY <1>1, <2>1, StackTyped, BelowFacts
  <2>3. Len(stack') # 0 => Len(stack') \in 1 .. Len(stack) - 1
    BY <1>2, <2>2, <2>1, <1>1, TopTyped
  <2>4. Len(stack') # 0 => stack'[Len(stack')].at = "body"
    BY <1>2, <2>2, <2>3
  <2> QED
    BY <1>1, <2>4, BodyOnTopIsQuiet
<1>7. CASE RunBody
  BY <1>1, <1>7, RunBodyFacts, BodyOnTopIsQuiet
<1>8. CASE Search
  <2>1. /\ stack # <<>> /\ Top.at = "find" /\ ~(Top.dir > Dirs) /\ UNCHANGED present
        /\ Top \in Frames /\ FrameOK(Top, objects)
    BY <1>1, <1>8, TopTyped DEF Search, Searching, Running, After
  <2>2. Top.dir \in Nat /\ Top.dir \in 0 .. Dirs + 1
    BY <2>1, DirsAssumption DEF Frames
  <2>3. ASSUME NEW f \in Frames, stack' = WithTop(f) PROVE Top' = f
    <3>1. /\ Len(stack') = Len(stack)
          /\ \A i \in 1 .. Len(stack) : stack'[i] = IF i = Len(stack) THEN f ELSE stack[i]
      BY <1>1, <2>1, <2>3, StackTyped, WithTopFacts
    <3>2. Len(stack) \in 1 .. Len(stack)
      BY <1>1, <2>1, TopTyped
    <3> QED
      BY <3>1, <3>2 DEF Top
  <2>4. CASE Readable(Top.dir, Top.name)
    <3> DEFINE f == [Top EXCEPT !.at = "open"]
    <3>1. f \in Frames
      BY <2>1 DEF Frames
    <3>2. f.name = Top.name /\ f.at = "open" /\ f.dir = Top.dir
      BY <2>1 DEF Frames
    <3>3. stack' = WithTop(f)
      BY <1>8, <2>4 DEF Search
    <3> HIDE DEF f
    <3>4. Top' = f
      BY <2>3, <3>1, <3>3
    <3> QED
      BY <2>1, <2>4, <3>2, <3>4 DEF QuietSearch, Readable
  <2>5. CASE ~Readable(Top.dir, Top.name)
    <3> DEFINE f == [Top EXCEPT !.dir = NextDir(@)]
    <3>0. NextDir(Top.dir) \in 0 .. Dirs + 1 /\ NextDir(Top.dir) = Top.dir + 1
      BY <2>1, <2>2, DirsAssumption DEF NextDir
    <3>1. f \in Frames
      BY <2>1, <3>0 DEF Frames
    <3>2. /\ f.name = Top.name /\ f.at = "find" /\ f.quiet = Top.quiet /\ f.loads = Top.loads
          /\ f.dir = NextDir(Top.dir)
      BY <2>1 DEF Frames
    <3>3. stack' = WithTop(f)
      BY <1>8, <2>5 DEF Search
    <3> HIDE DEF f
    <3>4. Top' = f
      BY <2>3, <3>1, <3>3
    <3>5. \A dir \in 1 .. Dirs : dir < f.dir => dir < Top.dir \/ dir = Top.dir
      BY <2>2, <3>0, <3>2
    <3>6. <<Top.dir, Top.name>> \notin present
      BY <2>5 DEF Readable
    <3> QED
      BY <2>1, <3>2, <3>4, <3>5, <3>6 DEF QuietSearch
  <2> QED
    BY <2>4, <2>5
<1>9. ASSUME NEW file \in Files, Change(file) PROVE QuietSearch'
  <2> DEFINE g(i) == IF stack[i].at # "body" /\ stack[i].name = file[2] THEN [stack[i] EXCEPT !.quiet = FALSE] ELSE stack[i]
  <2>1. /\ stack # <<>> /\ stack' = [i \in DOMAIN stack |-> g(i)]
        /\ present' = IF file \in present THEN present \ {file} ELSE present \cup {file}
    BY <1>9 DEF Change
  <2>2. Len(stack) \in 1 .. Len(stack) /\ DOMAIN stack = 1 .. Len(stack) /\ Top = stack[Len(stack)] /\ Top \in Frames
    BY <1>1, <2>1, TopTyped DEF Top
  <2>3. Len(stack') = Len(stack)
    BY <1>1, <1>9, ChangeStep DEF KeepsBodies
  <2>4. Top' = IF Top.at # "body" /\ Top.name = file[2] THEN [Top EXCEPT !.quiet = FALSE] ELSE Top
    BY <2>1, <2>2, <2>3 DEF Top
  <2>5. CASE Top.at # "body" /\ Top.name = file[2]
    <3>1. ~Top'.quiet
      BY <2>2, <2>4, <2>5 DEF Frames
    <3> QED
      BY <3>1 DEF QuietSearch
  <2>6. CASE Top.at = "body"
    BY <2>4, <2>6 DEF QuietSearch
  <2>7. CASE Top.name # file[2]
    <3>1. \A dir : <<dir, Top.name>> # file
      BY <2>7
    <3>2. \A dir : <<dir, Top.name>> \in present' <=> <<dir, Top.name>> \in present
      BY <2>1, <3>1
    <3> QED
      BY <2>1, <2>4, <2>7, <3>2 DEF QuietSearch
  <2> QED
    BY <2>5, <2>6, <2>7
<1>10. CASE Rescue \/ Stopped \/ UNCHANGED vars
  BY <1>10 DEF Rescue, Stopped, vars, QuietSearch, Top
<1>11. CASE BodyEnds \/ Raise \/ NotFound \/ NotOpened \/ NotCompiled \/ PassOn
  <2>1. ClosesFrame
    BY <1>11 DEF BodyEnds, Raise, NotFound, NotOpened, NotCompiled, PassOn, Kept, Fails, InBody, Searching, Opening,
                 Running, ClosesFrame
  <2> QED
    BY <1>6, <2>1
<1> QED
  BY <1>3, <1>4, <1>5, <1>7, <1>8, <1>9, <1>10, <1>11 DEF Next, Interpret

\* A step that shortens the stack after a quiet search tells the truth.
LEMMA QuietAnswer ==
  ASSUME Inv, QuietSearch, Next, Len(stack') < Len(stack), Top.quiet, ~Top.loads
  PROVE  /\ unwinding' # "open" \/ unwinding # "none"
         /\ unwinding' = "find" /\ unwinding = "none" =>
              \A dir \in 1 .. Dirs : <<dir, Top.name>> \notin present
<1>1. TypeOK /\ Len(stack) \in Nat
  BY StackTyped DEF Inv, BodiesUnderWay
<1>2. ~KeepsBodies /\ ~OpensFrame /\ ~RunBody
  BY <1>1, RunBodyFacts DEF KeepsBodies, OpensFrame
<1>3. BodyEnds \/ Raise \/ NotFound \/ NotOpened \/ NotCompiled \/ PassOn
  BY <1>1, <1>2, ImportKnownStep, ImportStartsStep, LoadStep, SearchStep, RescueStep, ChangeStep DEF Next, Interpret
<1>4. CASE BodyEnds \/ Raise \/ NotCompiled \/ PassOn
  BY <1>4 DEF BodyEnds, Raise, NotCompiled, PassOn, Fails, InBody, Opening, Running
<1>5. CASE NotFound
  <2>1. stack # <<>> /\ Top.at = "find" /\ Top.dir > Dirs /\ unwinding' = "find"
    BY <1>5 DEF NotFound, Searching, Running, After, Fails
  <2>2. Top.dir \in Nat /\ Dirs \in Nat
    BY <1>1, <2>1, TopTyped, DirsAssumption DEF Frames
  <2>3. \A dir \in 1 .. Dirs : dir < Top.dir
    BY <2>1, <2>2
  <2> QED
    BY <2>1, <2>3 DEF QuietSearch
<1>6. CASE NotOpened
  BY <1>6 DEF NotOpened, Opening, Running, QuietSearch
<1> QED
  BY <1>3, <1>4, <1>5, <1>6

\* A file nobody touches while it is searched for is found (import.cpp:20-44).
THEOREM FilesAreFound == Spec => QuietFilesAreFound
<1>1. Init => QuietSearch
  <2> SUFFICES ASSUME Init PROVE QuietSearch
    OBVIOUS
  <2>1. CASE stack = <<Frame(Main, "body", 0, 1, TRUE)>>
    BY <2>1 DEF QuietSearch, Top, Frame
  <2>2. CASE \E n \in Names : stack = <<Frame(n, "find", 1, 0, FALSE)>>
    <3>1. PICK n \in Names : stack = <<Frame(n, "find", 1, 0, FALSE)>>
      BY <2>2
    <3>2. Top.at = "find" /\ Top.dir = 1
      BY <3>1 DEF Top, Frame
    <3> QED
      BY <3>2 DEF QuietSearch
  <2> QED
    BY <2>1, <2>2 DEF Init
<1>2. QuietSearch /\ Inv /\ [Next]_vars => QuietSearch'
  BY QuietStep
<1> DEFINE Tells ==
      Len(stack') < Len(stack) /\ Top.quiet /\ ~Top.loads =>
       /\ unwinding' # "open" \/ unwinding # "none"
       /\ unwinding' = "find" /\ unwinding = "none" =>
            \A dir \in 1 .. Dirs : <<dir, Top.name>> \notin present
<1>3. QuietSearch /\ Inv /\ [Next]_vars => [Tells]_vars
  BY QuietAnswer
<1> HIDE DEF Tells
<1>4. Spec => [][Tells]_vars
  BY <1>1, <1>2, <1>3, InvHolds, PTL DEF Spec
<1> QED
  BY <1>4 DEF QuietFilesAreFound, Tells

-----------------------------------------------------------------------------
(* import implements ImportSpec.                                           *)

\* What the body of a frame is the module of.
Owns(f) == IF f.loads THEN {} ELSE {f.name}

\* The bodies under way are the frames, but for one on top that looks for a file.
LEMMA UnderWayFacts ==
  TypeOK => /\ Depth \in Nat /\ Depth \in {Len(stack), Len(stack) - 1}
            /\ UnderWay = [i \in 1 .. Depth |-> Owns(stack[i])]
            /\ UnderWay \in Seq(SUBSET (Names \cup {Main})) /\ Len(UnderWay) = Depth
<1> SUFFICES ASSUME TypeOK
             PROVE  /\ Depth \in Nat /\ Depth \in {Len(stack), Len(stack) - 1}
                    /\ UnderWay = [i \in 1 .. Depth |-> Owns(stack[i])]
                    /\ UnderWay \in Seq(SUBSET (Names \cup {Main})) /\ Len(UnderWay) = Depth
  OBVIOUS
<1>1. Depth \in Nat /\ Depth \in {Len(stack), Len(stack) - 1}
  BY StackTyped, TopTyped DEF Depth
<1>2. UnderWay = [i \in 1 .. Depth |-> Owns(stack[i])]
  BY DEF UnderWay, Owns
<1>0. Len(stack) \in Nat /\ \A i \in 1 .. Len(stack) : stack[i] \in Frames
  BY StackTyped
<1>3. \A i \in 1 .. Depth : i \in 1 .. Len(stack) /\ stack[i] \in Frames
  BY <1>0, <1>1
<1>4. ASSUME NEW i \in 1 .. Depth PROVE Owns(stack[i]) \in SUBSET (Names \cup {Main})
  <2>1. stack[i].name \in Names \cup {Main}
    BY <1>3 DEF Frames
  <2> QED
    BY <2>1 DEF Owns
<1> HIDE DEF Owns
<1>5. UnderWay \in [1 .. Depth -> SUBSET (Names \cup {Main})]
  BY <1>2, <1>4
<1>6. UnderWay \in Seq(SUBSET (Names \cup {Main}))
  BY <1>1, <1>5, SeqDef
<1>7. Len(UnderWay) = Depth
  BY <1>1, <1>2, <1>6, LenProperties
<1> QED
  BY <1>1, <1>2, <1>6, <1>7

LEMMA UnderWayAgain ==
  TypeOK' => /\ Depth' \in Nat /\ UnderWay' = [i \in 1 .. Depth' |-> Owns(stack'[i])]
             /\ UnderWay' \in Seq(SUBSET (Names \cup {Main})) /\ Len(UnderWay') = Depth'
<1>1. (TypeOK => /\ Depth \in Nat /\ UnderWay = [i \in 1 .. Depth |-> Owns(stack[i])]
                 /\ UnderWay \in Seq(SUBSET (Names \cup {Main})) /\ Len(UnderWay) = Depth)'
  BY UnderWayFacts, PTL
<1> QED
  BY <1>1 DEF Owns

\* The same bodies in the same modules: nothing has happened for ImportSpec.
LEMMA SameUnderWay ==
  ASSUME TypeOK, TypeOK', Depth' = Depth, Alike(stack', stack)
  PROVE  UnderWay' = UnderWay
<1>1. /\ Depth \in Nat /\ Depth \in {Len(stack), Len(stack) - 1} /\ Len(stack) \in Nat
      /\ UnderWay = [i \in 1 .. Depth |-> Owns(stack[i])]
      /\ UnderWay' = [i \in 1 .. Depth |-> Owns(stack'[i])]
  BY UnderWayFacts, UnderWayAgain, StackTyped
<1>2. \A i \in 1 .. Depth : i \in 1 .. Len(stack)
  BY <1>1
<1>3. \A i \in 1 .. Depth : Owns(stack'[i]) = Owns(stack[i])
  BY <1>2 DEF Owns, Alike, Like
<1> QED
  BY <1>1, <1>3

LEMMA QuietStepsStutter ==
  ASSUME Inv, TypeOK', KeepsBodies \/ OpensFrame
  PROVE  UNCHANGED <<Status, UnderWay>>
<1>1. TypeOK /\ Len(stack) \in Nat
  BY StackTyped DEF Inv, BodiesUnderWay
<1>2. UNCHANGED Status /\ Alike(stack', stack)
  BY DEF KeepsBodies, OpensFrame, Status
<1>3. (stack = <<>> <=> Len(stack) = 0) /\ (stack' = <<>> <=> Len(stack') = 0)
  BY <1>1, EmptySeq DEF TypeOK
<1>4. CASE KeepsBodies
  <2>1. ASSUME Len(stack) = 0 PROVE Depth' = Depth
    BY <1>3, <1>4, <2>1 DEF Depth, KeepsBodies
  <2>2. ASSUME Len(stack) # 0 PROVE Depth' = Depth
    <3>1. Len(stack) \in 1 .. Len(stack)
      BY <1>1, <2>2
    <3>2. Len(stack') = Len(stack) /\ (stack'[Len(stack)].at = "body" <=> stack[Len(stack)].at = "body")
      BY <1>4, <3>1 DEF KeepsBodies, Alike, Like
    <3> QED
      BY <1>3, <2>2, <3>2 DEF Depth, Top
  <2>3. Depth' = Depth
    BY <2>1, <2>2
  <2> QED
    BY <1>1, <1>2, <2>3, SameUnderWay
<1>5. CASE OpensFrame
  <2>1. Depth = Len(stack)
    BY <1>5 DEF Depth, OpensFrame
  <2>2. Len(stack') = Len(stack) + 1 /\ stack'[Len(stack')].at # "body"
    BY <1>5 DEF OpensFrame
  <2>3. Depth' = Len(stack') - 1
    BY <1>1, <1>3, <2>2 DEF Depth, Top
  <2>4. Depth' = Depth
    BY <1>1, <2>1, <2>2, <2>3
  <2> QED
    BY <1>1, <1>2, <2>4, SameUnderWay
<1> QED
  BY <1>4, <1>5

\* A body that begins: that of a name that was not there, or a loaded one.
LEMMA RunBodyImplements ==
  ASSUME Inv, TypeOK', RunBody
  PROVE  (\E n \in Names : Promise!Imports(n)) \/ Promise!Loads
<1> DEFINE top == Len(stack)
           new == Len(objects) + 1
<1>1. TypeOK
  BY DEF Inv, BodiesUnderWay
<1>2. /\ stack # <<>> /\ Top.at = "open" /\ Top.name \in Names
      /\ Len(stack') = top
      /\ \A i \in 1 .. top - 1 : stack'[i] = stack[i]
      /\ stack'[top].at = "body" /\ stack'[top].name = Top.name /\ stack'[top].loads = Top.loads
      /\ Len(objects') = new
      /\ \A m \in 1 .. Len(objects) : objects'[m] = objects[m]
      /\ objects'[new].state = "running"
      /\ modules' = IF Top.loads THEN modules ELSE [modules EXCEPT ![Top.name] = new]
  BY <1>1, RunBodyFacts
<1>3. top \in Nat \ {0} /\ Top = stack[top] /\ top \in 1 .. top /\ Len(objects) \in Nat
  BY <1>1, <1>2, TopTyped, ObjectsTyped DEF Top
<1>4. Depth = top - 1
  BY <1>2 DEF Depth
<1>5. Depth' = top
  BY <1>2 DEF Depth, Top
<1> HIDE DEF top
<1>6. /\ UnderWay = [i \in 1 .. top - 1 |-> Owns(stack[i])] /\ Len(UnderWay) = top - 1
      /\ UnderWay \in Seq(SUBSET (Names \cup {Main}))
      /\ UnderWay' = [i \in 1 .. top |-> Owns(stack'[i])] /\ Len(UnderWay') = top
      /\ UnderWay' \in Seq(SUBSET (Names \cup {Main}))
  BY <1>1, <1>4, <1>5, UnderWayFacts, UnderWayAgain
<1> DEFINE own == IF Top.loads THEN {} ELSE {Top.name}
<1>7. Owns(stack'[top]) = own
  BY <1>2 DEF Owns
<1>8. own \in SUBSET (Names \cup {Main})
  BY <1>2
<1> HIDE DEF own
<1>9. UnderWay' = Append(UnderWay, own)
  <2> DEFINE S == SUBSET (Names \cup {Main})
             t == Append(UnderWay, own)
  <2>1. /\ t \in Seq(S) /\ Len(t) = top
        /\ \A i \in 1 .. top - 1 : t[i] = UnderWay[i]
        /\ t[top] = own
    BY <1>3, <1>6, <1>8, AppendFacts
  <2>2. \A i \in 1 .. top : i = top \/ i \in 1 .. top - 1
    BY <1>3
  <2>3. UnderWay'[top] = own /\ \A i \in 1 .. top - 1 : UnderWay'[i] = UnderWay[i]
    <3>1. \A i \in 1 .. top - 1 : i \in 1 .. top /\ Owns(stack'[i]) = Owns(stack[i])
      BY <1>2, <1>3
    <3> QED
      BY <1>3, <1>6, <1>7, <3>1
  <2> HIDE DEF t
  <2>4. \A i \in 1 .. Len(UnderWay') : UnderWay'[i] = t[i]
    BY <1>6, <2>1, <2>2, <2>3
  <2>5. UnderWay' = t
    BY <1>6, <2>1, <2>4, SeqEqual
  <2> QED
    BY <2>5 DEF t
<1>10. CASE Top.loads
  <2>1. UnderWay' = Append(UnderWay, {})
    BY <1>9, <1>10 DEF own
  <2>2. \A n \in Names : modules[n] # 0 => modules[n] \in 1 .. Len(objects)
    BY <1>1, ObjectsTyped
  <2>3. UNCHANGED Status
    BY <1>2, <1>10, <2>2 DEF Status
  <2> QED
    BY <2>1, <2>3 DEF Promise!Loads
<1>11. CASE ~Top.loads
  <2>1. UnderWay' = Append(UnderWay, {Top.name})
    BY <1>9, <1>11 DEF own
  <2>2. modules[Top.name] = 0
    BY <1>2, <1>3, <1>11 DEF Inv, Registry, top
  <2>3. \A n \in Names : modules[n] # 0 => modules[n] \in 1 .. Len(objects)
    BY <1>1, ObjectsTyped
  <2>4. modules \in [Names -> 0 .. Len(objects)] /\ new # 0
    BY <1>1, <1>3 DEF TypeOK
  <2> HIDE DEF new
  <2>5. \A n \in Names : modules'[n] = IF n = Top.name THEN new ELSE modules[n]
    BY <1>2, <1>11, <2>4
  <2>6. Status[Top.name] = "absent"
    BY <1>2, <2>2 DEF Status
  <2>7. \A n \in Names : Status'[n] = IF n = Top.name THEN "running" ELSE Status[n]
    BY <1>2, <2>3, <2>4, <2>5 DEF Status
  <2>8. Status' = [Status EXCEPT ![Top.name] = "running"]
    <3>1. DOMAIN Status = Names /\ Status = [n \in Names |-> Status[n]] /\ Status' = [n \in Names |-> Status'[n]]
      BY DEF Status
    <3> QED
      BY <2>7, <3>1
  <2>9. Promise!Imports(Top.name)
    BY <2>1, <2>6, <2>8 DEF Promise!Imports
  <2> QED
    BY <1>2, <2>9
<1> QED
  BY <1>10, <1>11

\* A body that ends is the one that began last, and its module is left as it ended.
LEMMA BodyStops ==
  ASSUME Inv, TypeOK', stack # <<>>, Top.at = "body", NEW end \in {"done", "failed"}, Left(end), UNCHANGED modules
  PROVE  Promise!Stops(end)
<1> DEFINE top == Len(stack)
<1>1. TypeOK /\ TypeOK'
  BY DEF Inv, BodiesUnderWay
<1>2. /\ top \in Nat \ {0} /\ Top = stack[top] /\ top \in 1 .. top /\ Top \in Frames
      /\ Top.module \in 1 .. Len(objects) /\ objects[Top.module].name = Top.name
  BY <1>1, TopTyped, ObjectsTyped DEF FrameOK, Top
<1>3. Depth = top
  BY DEF Depth
<1>4. Len(stack') = top - 1 /\ \A i \in 1 .. top - 1 : stack'[i] = stack[i]
  BY <1>1, StackTyped, BelowFacts DEF Left
<1>5. \A i \in 1 .. top - 1 : stack[i].at = "body"
  BY <1>1, Bodies DEF Inv
<1>6. Depth' = top - 1
  <2>1. stack' # <<>> => Len(stack') \in 1 .. top - 1
    BY <1>1, <1>2, <1>4, EmptySeq DEF TypeOK
  <2>2. stack' # <<>> => Top'.at = "body"
    BY <1>4, <1>5, <2>1 DEF Top
  <2> QED
    BY <1>4, <2>2 DEF Depth
<1> HIDE DEF top
<1>7. /\ UnderWay = [i \in 1 .. top |-> Owns(stack[i])] /\ Len(UnderWay) = top
      /\ UnderWay \in Seq(SUBSET (Names \cup {Main}))
      /\ UnderWay' = [i \in 1 .. top - 1 |-> Owns(stack'[i])] /\ Len(UnderWay') = top - 1
      /\ UnderWay' \in Seq(SUBSET (Names \cup {Main}))
  BY <1>1, <1>3, <1>6, UnderWayFacts, UnderWayAgain
<1>8. UnderWay[Len(UnderWay)] = Owns(Top) /\ UnderWay # <<>>
  BY <1>2, <1>7, EmptySeq
<1>9. UnderWay' = SubSeq(UnderWay, 1, Len(UnderWay) - 1)
  <2> DEFINE S == SUBSET (Names \cup {Main})
             n == top - 1
             t == SubSeq(UnderWay, 1, n)
  <2>1. n \in Nat /\ n \in Int /\ 1 \in Int /\ \A i \in 1 .. n : i \in 1 .. top
    BY <1>2
  <2>2. \A i \in 1 .. n : UnderWay[i] \in S
    BY <1>7, <2>1, ElementOfSeq
  <2> HIDE DEF n, S
  <2>3. /\ t \in Seq(S) /\ Len(t) = IF 1 <= n THEN n - 1 + 1 ELSE 0
        /\ \A i \in 1 .. n - 1 + 1 : t[i] = UnderWay[1 + i - 1]
    BY <2>1, <2>2, SubSeqProperties
  <2>4. t \in Seq(S) /\ Len(t) = n /\ \A i \in 1 .. n : t[i] = UnderWay[i]
    BY <2>1, <2>3
  <2>5. \A i \in 1 .. n : UnderWay'[i] = UnderWay[i]
    <3>1. \A i \in 1 .. n : Owns(stack'[i]) = Owns(stack[i])
      BY <1>4 DEF n
    <3> QED
      BY <1>7, <2>1, <3>1 DEF n
  <2> HIDE DEF t
  <2>7. UnderWay' \in Seq(S) /\ Len(UnderWay') = n
    BY <1>7 DEF n, S
  <2>8. \A i \in 1 .. Len(UnderWay') : UnderWay'[i] = t[i]
    BY <2>4, <2>5, <2>7
  <2>6. UnderWay' = t
    BY <2>4, <2>7, <2>8, SeqEqual
  <2> QED
    BY <1>7, <2>6 DEF t, n
<1>10. \A m \in 1 .. Len(objects) :
         objects'[m].state = IF m = Top.module THEN end ELSE objects[m].state
  BY <1>1, LeftObjects
<1>11. ASSUME NEW n \in Names
       PROVE  Status'[n] = IF n \in Owns(Top) THEN end ELSE Status[n]
  <2>1. modules[n] = 0 \/ modules[n] \in 1 .. Len(objects)
    BY <1>1, ObjectsTyped
  <2>2. modules[n] = Top.module <=> n \in Owns(Top)
    <3>1. CASE Top.loads
      BY <1>2, <3>1 DEF Inv, Registry, Owns, top
    <3>2. CASE ~Top.loads
      <4>1. modules[Top.name] = Top.module
        BY <1>2, <3>2 DEF Inv, Registry, top
      <4>2. modules[n] = Top.module => n = Top.name
        BY <1>2 DEF Inv, Registry
      <4> QED
        BY <3>2, <4>1, <4>2 DEF Owns
    <3> QED
      BY <3>1, <3>2
  <2>3. Status'[n] = IF modules[n] = 0 THEN "absent" ELSE objects'[modules[n]].state
    BY DEF Status
  <2>4. Status[n] = IF modules[n] = 0 THEN "absent" ELSE objects[modules[n]].state
    BY DEF Status
  <2>5. CASE modules[n] = 0
    BY <1>2, <2>2, <2>3, <2>4, <2>5
  <2>6. CASE modules[n] \in 1 .. Len(objects)
    BY <1>10, <2>1, <2>2, <2>3, <2>4, <2>6
  <2> QED
    BY <2>1, <2>5, <2>6
<1>12. Status' = [n \in Names |-> Status'[n]]
  BY DEF Status
<1>13. Status' = [n \in Names |-> IF n \in UnderWay[Len(UnderWay)] THEN end ELSE Status[n]]
  BY <1>8, <1>11, <1>12
<1> QED
  BY <1>8, <1>9, <1>13 DEF Promise!Stops

\* What fails before it has a body changes nothing that is promised.
LEMMA SearchStopsQuietly ==
  ASSUME Inv, TypeOK', stack # <<>>, Top.at # "body", NEW end \in {"done", "failed"}, Left(end), UNCHANGED modules
  PROVE  UNCHANGED <<Status, UnderWay>>
<1> DEFINE top == Len(stack)
<1>1. TypeOK /\ TypeOK'
  BY DEF Inv, BodiesUnderWay
<1>2. top \in Nat \ {0}
  BY <1>1, TopTyped
<1>3. Depth = top - 1
  BY DEF Depth
<1>4. Len(stack') = top - 1 /\ \A i \in 1 .. top - 1 : stack'[i] = stack[i]
  BY <1>1, StackTyped, BelowFacts DEF Left
<1>5. \A i \in 1 .. top - 1 : stack[i].at = "body"
  BY <1>1, Bodies DEF Inv
<1>6. Depth' = top - 1
  <2>1. stack' # <<>> => Len(stack') \in 1 .. top - 1
    BY <1>1, <1>2, <1>4, EmptySeq DEF TypeOK
  <2>2. stack' # <<>> => Top'.at = "body"
    BY <1>4, <1>5, <2>1 DEF Top
  <2> QED
    BY <1>4, <2>2 DEF Depth
<1> HIDE DEF top
<1>7. UnderWay' = UnderWay
  <2>1. /\ UnderWay = [i \in 1 .. top - 1 |-> Owns(stack[i])]
        /\ UnderWay' = [i \in 1 .. top - 1 |-> Owns(stack'[i])]
    BY <1>1, <1>3, <1>6, UnderWayFacts, UnderWayAgain
  <2>2. \A i \in 1 .. top - 1 : Owns(stack'[i]) = Owns(stack[i])
    BY <1>4
  <2> QED
    BY <2>1, <2>2
<1>8. UNCHANGED objects
  BY DEF Left
<1> QED
  BY <1>7, <1>8 DEF Status

\* import implements ImportSpec, for every tree of files, every body and every change:
\* the body of a name runs once, and the body that ends is the one that began last
\* (import.cpp:83-151).
THEOREM ImportKeepsItsPromise == Spec => ImplementsImports
<1>1. Init => Promise!Init
  <2> SUFFICES ASSUME Init PROVE Promise!Init
    OBVIOUS
  <2>1. TypeOK
    BY InitiallyTyped
  <2>2. Status = [n \in Names |-> "absent"]
    BY DEF Init, Status
  <2>3. CASE stack = <<Frame(Main, "body", 0, 1, TRUE)>>
    <3>1. Len(stack) = 1 /\ stack # <<>> /\ stack[1].at = "body" /\ stack[1].loads = TRUE
      BY <2>3 DEF Frame
    <3>2. Depth = 1
      BY <3>1 DEF Depth, Top
    <3>3. Len(UnderWay) = 1 /\ UnderWay[1] = {} /\ UnderWay \in Seq(SUBSET (Names \cup {Main}))
      BY <2>1, <3>1, <3>2, UnderWayFacts DEF Owns
    <3>4. UnderWay = <<{}>>
      <4>1. <<{}>> \in Seq(SUBSET (Names \cup {Main})) /\ Len(<<{}>>) = 1 /\ <<{}>>[1] = {}
        OBVIOUS
      <4> QED
        BY <3>3, <4>1, SeqEqual
    <3> QED
      BY <2>2, <3>4 DEF Promise!Init
  <2>4. CASE \E n \in Names : stack = <<Frame(n, "find", 1, 0, FALSE)>>
    <3>1. PICK n \in Names : stack = <<Frame(n, "find", 1, 0, FALSE)>>
      BY <2>4
    <3>2. Len(stack) = 1 /\ stack # <<>> /\ stack[1].at = "find"
      BY <3>1 DEF Frame
    <3>3. Depth = 0
      BY <3>2 DEF Depth, Top
    <3>4. UnderWay = <<>>
      BY <2>1, <3>3, UnderWayFacts, EmptySeq
    <3> QED
      BY <2>2, <3>4 DEF Promise!Init
  <2> QED
    BY <2>3, <2>4 DEF Init
<1>2. Inv /\ [Next]_vars => [Promise!Next]_<<Status, UnderWay>>
  <2> SUFFICES ASSUME Inv, [Next]_vars PROVE [Promise!Next]_<<Status, UnderWay>>
    OBVIOUS
  <2>1. TypeOK /\ TypeOK'
    BY Shapes DEF Inv, BodiesUnderWay
  <2>2. CASE KeepsBodies \/ OpensFrame
    BY <2>1, <2>2, QuietStepsStutter
  <2>3. CASE RunBody
    BY <2>1, <2>3, RunBodyImplements DEF Promise!Next
  <2>4. CASE ClosesFrame
    <3>1. PICK end \in {"done", "failed"} : Left(end)
      BY <2>4 DEF ClosesFrame
    <3>2. stack # <<>> /\ UNCHANGED modules
      BY <2>4 DEF ClosesFrame
    <3>3. CASE Top.at = "body"
      BY <2>1, <3>1, <3>2, <3>3, BodyStops DEF Promise!Next
    <3>4. CASE Top.at # "body"
      BY <2>1, <3>1, <3>2, <3>4, SearchStopsQuietly
    <3> QED
      BY <3>3, <3>4
  <2> QED
    BY <2>1, <2>2, <2>3, <2>4, Shapes
<1>3. Spec => Promise!Spec
  BY <1>1, <1>2, InvHolds, PTL DEF Spec, Promise!Spec
<1> QED
  BY <1>3 DEF ImplementsImports
=============================================================================
