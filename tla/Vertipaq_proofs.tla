-------------------------- MODULE Vertipaq_proofs --------------------------
(***************************************************************************)
(* What holds of every column that is read, whatever its files say.        *)
(***************************************************************************)
EXTENDS Vertipaq, DataTheorems

-----------------------------------------------------------------------------
(* Paths and frames.                                                       *)

\* What lies directly in a member of an object.
LEMMA Inside ==
    ASSUME NEW S, NEW p \in Seq(S), NEW x \in S
    PROVE  LET o == Append(p, x)
           IN  /\ o \in Seq(S) /\ o # <<>> /\ Len(o) = Len(p) + 1
               /\ SubSeq(o, 1, Len(p)) = p /\ o[Len(p) + 1] = x
<1> DEFINE o == Append(p, x)
<1>1. o \in Seq(S) /\ Len(o) = Len(p) + 1 /\ o[Len(p) + 1] = x
  OBVIOUS
<1>2. SubSeq(o, 1, Len(p)) = p
  OBVIOUS
<1> QED
  BY <1>1, <1>2

\* What lies further inside lies in that member, too.
LEMMA FurtherInside ==
    ASSUME NEW S, NEW p \in Seq(S), NEW x \in S, NEW o \in Seq(S), Len(o) >= Len(p) + 1,
           SubSeq(o, 1, Len(p) + 1) = Append(p, x)
    PROVE  SubSeq(o, 1, Len(p)) = p /\ o[Len(p) + 1] = x
<1>1. Len(p) \in Nat /\ Len(o) \in Nat
  OBVIOUS
<1> QED
  BY <1>1

\* The running constructor and those that wait for it.
LEMMA TopFrame ==
    ASSUME NEW readers, StackInv(readers), stack # <<>>
    PROVE  /\ Len(stack) \in Nat \ {0} /\ DOMAIN stack = 1 .. Len(stack)
           /\ Top = stack[1] /\ Top \in Frames(readers) /\ SoundFrame(Top, readers)
           /\ Tail(stack) \in Seq(Frames(readers)) /\ Len(Tail(stack)) = Len(stack) - 1
           /\ \A k \in 1 .. Len(stack) - 1 : Tail(stack)[k] = stack[k + 1]
BY DEF StackInv, Top

\* A frame in place of the top one.
LEMMA NewTop ==
    ASSUME NEW readers, StackInv(readers), stack # <<>>, NEW f \in Frames(readers)
    PROVE  /\ WithTop(f) \in Seq(Frames(readers)) /\ Len(WithTop(f)) = Len(stack)
           /\ WithTop(f)[1] = f
           /\ \A k \in 2 .. Len(stack) : WithTop(f)[k] = stack[k]
<1>1. /\ Len(stack) \in Nat \ {0} /\ Tail(stack) \in Seq(Frames(readers))
      /\ Len(Tail(stack)) = Len(stack) - 1
      /\ \A k \in 1 .. Len(stack) - 1 : Tail(stack)[k] = stack[k + 1]
  BY TopFrame
<1>2. <<f>> \in Seq(Frames(readers)) /\ Len(<<f>>) = 1
  OBVIOUS
<1> QED
  BY <1>1, <1>2 DEF WithTop

\* The running constructor may change its frame as long as it stays where it is.
LEMMA WithTopKeeps ==
    ASSUME NEW readers, StackInv(readers), stack # <<>>, parse' = parse,
           NEW f \in Frames(readers), SoundFrame(f, readers), f.path = Top.path,
           stack' = WithTop(f)
    PROVE  StackInv(readers)'
<1>1. /\ Len(stack) \in Nat \ {0} /\ DOMAIN stack = 1 .. Len(stack) /\ Top = stack[1]
  BY TopFrame
<1>2. /\ stack' \in Seq(Frames(readers)) /\ Len(stack') = Len(stack)
      /\ stack'[1] = f /\ \A k \in 2 .. Len(stack) : stack'[k] = stack[k]
  BY NewTop
<1>3. DOMAIN stack' = 1 .. Len(stack) /\ stack' # <<>>
  BY <1>1, <1>2
<1>4. \A k \in 1 .. Len(stack) : SoundFrame(stack'[k], readers)
  BY <1>1, <1>2 DEF StackInv
<1>5. ASSUME NEW k \in 1 .. Len(stack)
      PROVE  IF k = Len(stack) THEN stack'[k].path = <<>> ELSE WaitsFor(stack'[k + 1], stack'[k])
  <2>1. IF k = Len(stack) THEN stack[k].path = <<>> ELSE WaitsFor(stack[k + 1], stack[k])
    <3>1. \A j \in DOMAIN stack :
             IF j = Len(stack) THEN stack[j].path = <<>> ELSE WaitsFor(stack[j + 1], stack[j])
      BY DEF StackInv
    <3> QED
      BY <1>1, <3>1
  <2>2. stack'[k].path = stack[k].path
    BY <1>1, <1>2
  <2>3. k # Len(stack) => stack'[k + 1] = stack[k + 1]
    <3>1. Len(stack) \in Nat
      BY <1>1
    <3>2. k # Len(stack) => k + 1 \in 2 .. Len(stack)
      BY <3>1
    <3> QED
      BY <1>2, <3>2
  <2> QED
    BY <2>1, <2>2, <2>3 DEF WaitsFor
<1> QED
  BY <1>2, <1>3, <1>4, <1>5 DEF StackInv

\* Then the objects there belong to the same frames as before.
LEMMA BelongsKeeps ==
    ASSUME NEW readers, StackInv(readers), HeapInv, stack # <<>>,
           NEW f \in Frames(readers), f.path = Top.path, f.frees = Top.frees,
           Top.held \subseteq f.held, stack' = WithTop(f),
           NEW o \in heap
    PROVE  \E k \in DOMAIN stack' : o = stack'[k].path \/ BelongsTo(o, stack'[k])
<1>1. /\ Len(stack) \in Nat \ {0} /\ DOMAIN stack = 1 .. Len(stack) /\ Top = stack[1]
  BY TopFrame
<1>2. /\ stack' \in Seq(Frames(readers)) /\ Len(stack') = Len(stack)
      /\ stack'[1] = f /\ \A k \in 2 .. Len(stack) : stack'[k] = stack[k]
  BY NewTop
<1>3. PICK k \in 1 .. Len(stack) : o = stack[k].path \/ BelongsTo(o, stack[k])
  BY <1>1 DEF HeapInv
<1>4. k = 1 \/ k \in 2 .. Len(stack)
  BY <1>1
<1>5. o = stack'[k].path \/ BelongsTo(o, stack'[k])
  <2>1. CASE k = 1
    BY <1>1, <1>2, <1>3, <2>1 DEF BelongsTo
  <2>2. CASE k \in 2 .. Len(stack)
    BY <1>2, <1>3, <2>2
  <2> QED
    BY <1>4, <2>1, <2>2
<1> QED
  BY <1>1, <1>2, <1>5

\* The step at hand is one that the layout allows.
LEMMA StepTypes ==
    ASSUME NEW readers, StackInv(readers), stack # <<>>, Top.rest # <<>>
    PROVE  /\ Step \in StepsOf(Top.frees, readers)
           /\ Tail(Top.rest) \in Seq(StepsOf(Top.frees, readers))
           /\ Tail(Top.rest) \in Seq(StepsOf(Members, readers))
           /\ Step.op \in {"vector", "none", "new"} => Step.member \in Top.frees
           /\ Step.op = "new" => Step.index \in Nat /\ Step.layout \in readers
           /\ Top.frees \subseteq Members
<1>1. Top \in Frames(readers) /\ Top.rest \in Seq(StepsOf(Top.frees, readers))
  BY TopFrame DEF SoundFrame
<1>2. Top.rest \in Seq(StepsOf(Members, readers)) /\ Top.frees \subseteq Members
  BY <1>1 DEF Frames
<1>3. Step \in StepsOf(Top.frees, readers)
  BY <1>1 DEF Step
<1>4. \A s \in StepsOf(Top.frees, readers) :
         /\ s.op \in {"vector", "none", "new"} => s.member \in Top.frees
         /\ s.op = "new" => s.index \in Nat /\ s.layout \in readers
  BY DEF StepsOf
<1>5. \A S : Top.rest \in Seq(S) => Tail(Top.rest) \in Seq(S)
  OBVIOUS
<1> QED
  BY <1>1, <1>2, <1>3, <1>4, <1>5

-----------------------------------------------------------------------------
(* The steps of a reader.                                                  *)

LEMMA ReadingKeeps ==
    ASSUME NEW readers, LayoutInv(readers), ReadValues \/ SetNone
    PROVE  LayoutInv(readers)'
<1> DEFINE f == [Top EXCEPT !.rest = Tail(@)]
           g == [Top EXCEPT !.rest = Tail(@), !.none = @ \cup {Step.member}]
<1>1. /\ StackInv(readers) /\ HeapInv /\ stack # <<>> /\ Top.rest # <<>>
      /\ UNCHANGED <<heap, parse>>
      /\ stack' = WithTop(f) \/ (stack' = WithTop(g) /\ Step.op = "none")
  BY DEF LayoutInv, StackInv, ReadValues, SetNone, Reading
<1>2. /\ Top \in Frames(readers) /\ SoundFrame(Top, readers)
      /\ Tail(Top.rest) \in Seq(StepsOf(Top.frees, readers))
      /\ Tail(Top.rest) \in Seq(StepsOf(Members, readers))
      /\ Step.op = "none" => Step.member \in Members
  BY <1>1, TopFrame, StepTypes
<1>3. PICK h \in {f, g} :
         /\ stack' = WithTop(h) /\ h \in Frames(readers) /\ SoundFrame(h, readers)
         /\ h.path = Top.path /\ h.frees = Top.frees /\ h.held = Top.held
  <2>1. CASE stack' = WithTop(f)
    <3>1. /\ f \in Frames(readers)
          /\ f.path = Top.path /\ f.frees = Top.frees /\ f.held = Top.held
          /\ f.nulled = Top.nulled /\ f.rest = Tail(Top.rest)
      BY <1>2 DEF Frames
    <3> HIDE DEF f
    <3> QED
      BY <1>2, <2>1, <3>1 DEF SoundFrame
  <2>2. CASE stack' = WithTop(g) /\ Step.op = "none"
    <3>1. /\ g \in Frames(readers)
          /\ g.path = Top.path /\ g.frees = Top.frees /\ g.held = Top.held
          /\ g.nulled = Top.nulled /\ g.rest = Tail(Top.rest)
      BY <1>2, <2>2 DEF Frames
    <3> HIDE DEF g
    <3> QED
      BY <1>2, <2>2, <3>1 DEF SoundFrame
  <2> QED
    BY <1>1, <2>1, <2>2
<1> HIDE DEF f, g
<1>4. StackInv(readers)'
  BY <1>1, <1>3, WithTopKeeps
<1>5. \A o \in heap : \E k \in DOMAIN stack' : o = stack'[k].path \/ BelongsTo(o, stack'[k])
  BY <1>1, <1>3, BelongsKeeps
<1> QED
  BY <1>1, <1>4, <1>5 DEF LayoutInv, HeapInv

LEMMA ThrowKeeps ==
    ASSUME NEW readers, LayoutInv(readers), Throw
    PROVE  LayoutInv(readers)'
BY DEF LayoutInv, StackInv, HeapInv, BelongsTo, Throw, Reading

LEMMA NewVectorKeeps ==
    ASSUME NEW readers, LayoutInv(readers), NewVector
    PROVE  LayoutInv(readers)'
<1> DEFINE f == [Top EXCEPT !.rest = Tail(@), !.held = @ \cup {Step.member}]
           slot == Slot(Step.member, 0)
           vector == Append(Top.path, slot)
<1>1. /\ StackInv(readers) /\ HeapInv /\ stack # <<>> /\ Top.rest # <<>>
      /\ Step.op = "vector" /\ heap' = heap \cup {vector} /\ parse' = parse
      /\ stack' = WithTop(f)
  BY DEF LayoutInv, StackInv, NewVector, Reading
<1>2. /\ Top \in Frames(readers) /\ SoundFrame(Top, readers)
      /\ Tail(Top.rest) \in Seq(StepsOf(Top.frees, readers))
      /\ Tail(Top.rest) \in Seq(StepsOf(Members, readers))
      /\ Step.member \in Top.frees /\ Top.frees \subseteq Members
  BY <1>1, TopFrame, StepTypes
<1>3. /\ f \in Frames(readers) /\ f.path = Top.path /\ f.frees = Top.frees
      /\ f.held = Top.held \cup {Step.member}
      /\ f.nulled = Top.nulled /\ f.rest = Tail(Top.rest)
  BY <1>2 DEF Frames
<1> HIDE DEF f
<1>4. SoundFrame(f, readers)
  BY <1>2, <1>3 DEF SoundFrame
<1>5. StackInv(readers)'
  BY <1>1, <1>3, <1>4, WithTopKeeps
<1>6. \A o \in heap : \E k \in DOMAIN stack' : o = stack'[k].path \/ BelongsTo(o, stack'[k])
  BY <1>1, <1>3, BelongsKeeps
<1>7. slot \in Slots /\ slot.owned /\ slot.member = Step.member /\ Top.path \in Seq(Slots)
  BY <1>2 DEF Slot, Slots, Frames
<1> HIDE DEF slot
<1>8. /\ vector \in Seq(Slots) /\ vector # <<>> /\ Len(vector) = Len(Top.path) + 1
      /\ SubSeq(vector, 1, Len(Top.path)) = Top.path /\ vector[Len(Top.path) + 1] = slot
  BY <1>7, Inside
<1>9. BelongsTo(vector, f)
  <2>1. Len(Top.path) \in Nat
    BY <1>7
  <2> HIDE DEF vector
  <2>2. \A k \in Len(Top.path) + 1 .. Len(vector) : vector[k].owned
    BY <1>7, <1>8, <2>1
  <2> QED
    BY <1>2, <1>3, <1>7, <1>8, <2>1, <2>2 DEF BelongsTo
<1>10. stack'[1] = f /\ 1 \in DOMAIN stack'
  BY <1>1, <1>3, NewTop, TopFrame
<1> QED
  BY <1>1, <1>5, <1>6, <1>8, <1>9, <1>10 DEF LayoutInv, HeapInv

\* The constructor of a member starts: the readers are those of the document.
LEMMA NewObjectKeeps ==
    ASSUME NEW readers, \A l \in readers : SoundReader(l, readers),
           LayoutInv(readers), NewObject
    PROVE  LayoutInv(readers)'
<1> DEFINE g == [Top EXCEPT !.none = @ \ {Step.member}]
           slot == Slot(Step.member, Step.index)
           path == Append(Top.path, slot)
           inner == Frame(path, Step.layout)
           n == Len(stack)
<1>1. /\ StackInv(readers) /\ HeapInv /\ stack # <<>> /\ Top.rest # <<>>
      /\ Step.op = "new" /\ heap' = heap \cup {path}
      /\ parse' = "reading" /\ parse = "reading"
      /\ stack' = <<inner>> \o WithTop(g)
  BY DEF LayoutInv, StackInv, NewObject, Reading
<1>2. /\ Top \in Frames(readers) /\ SoundFrame(Top, readers)
      /\ n \in Nat \ {0} /\ DOMAIN stack = 1 .. n /\ Top = stack[1]
      /\ Step.member \in Top.frees /\ Top.frees \subseteq Members
      /\ Step.index \in Nat /\ SoundReader(Step.layout, readers)
  BY <1>1, TopFrame, StepTypes
<1>3. /\ g \in Frames(readers) /\ g.path = Top.path /\ g.frees = Top.frees
      /\ g.held = Top.held /\ g.nulled = Top.nulled /\ g.rest = Top.rest
  BY <1>2 DEF Frames
<1> HIDE DEF g
<1>4. /\ slot = [member |-> Step.member, index |-> Step.index, owned |-> TRUE]
      /\ slot \in Slots /\ Top.path \in Seq(Slots)
  BY <1>2 DEF Slot, Slots, Frames
<1> HIDE DEF slot
<1>5. path \in Seq(Slots) /\ path # <<>>
  BY <1>4, Inside
<1>6. /\ inner \in Frames(readers) /\ SoundFrame(inner, readers) /\ inner.path = path
  <2>1. /\ Step.layout.nulled \subseteq Members /\ Step.layout.frees \subseteq Members
        /\ Step.layout.frees \ Step.layout.nulled \subseteq Unions
        /\ Step.layout.steps \in Seq(StepsOf(Step.layout.frees, readers))
    BY <1>2 DEF SoundReader
  <2>2. StepsOf(Step.layout.frees, readers) \subseteq StepsOf(Members, readers)
    BY <2>1 DEF StepsOf
  <2>3. Step.layout.steps \in Seq(StepsOf(Members, readers))
    BY <2>1, <2>2
  <2> HIDE DEF path
  <2> QED
    BY <1>5, <2>1, <2>3 DEF Frame, Frames, SoundFrame
<1> HIDE DEF path, inner
<1>7. /\ WithTop(g) \in Seq(Frames(readers)) /\ Len(WithTop(g)) = n
      /\ WithTop(g)[1] = g /\ \A k \in 2 .. n : WithTop(g)[k] = stack[k]
  BY <1>1, <1>3, NewTop
<1>8. /\ stack' \in Seq(Frames(readers)) /\ Len(stack') = n + 1
      /\ stack'[1] = inner /\ \A k \in 1 .. n : stack'[k + 1] = WithTop(g)[k]
  BY <1>1, <1>2, <1>6, <1>7
<1>9. DOMAIN stack' = 1 .. n + 1 /\ stack' # <<>>
  BY <1>2, <1>8
<1>10. \A k \in 1 .. n :
          /\ stack'[k + 1].path = stack[k].path /\ stack'[k + 1].frees = stack[k].frees
          /\ stack'[k + 1].held = stack[k].held /\ stack'[k + 1].nulled = stack[k].nulled
          /\ stack'[k + 1].rest = stack[k].rest
  <2> SUFFICES ASSUME NEW k \in 1 .. n
               PROVE  /\ stack'[k + 1].path = stack[k].path
                      /\ stack'[k + 1].frees = stack[k].frees
                      /\ stack'[k + 1].held = stack[k].held
                      /\ stack'[k + 1].nulled = stack[k].nulled
                      /\ stack'[k + 1].rest = stack[k].rest
    OBVIOUS
  <2>1. stack'[k + 1] = WithTop(g)[k]
    BY <1>8
  <2>2. k = 1 \/ k \in 2 .. n
    OBVIOUS
  <2>3. CASE k = 1
    BY <1>2, <1>3, <1>7, <2>1, <2>3
  <2>4. CASE k \in 2 .. n
    BY <1>7, <2>1, <2>4
  <2> QED
    BY <2>2, <2>3, <2>4
<1>11. \A k \in 1 .. n + 1 : k = 1 \/ (k - 1 \in 1 .. n /\ (k - 1) + 1 = k)
  BY <1>2
<1>12. \A k \in 1 .. n + 1 : SoundFrame(stack'[k], readers)
  <2>1. \A k \in 1 .. n : SoundFrame(stack[k], readers)
    BY <1>1, <1>2 DEF StackInv
  <2>2. \A k \in 1 .. n : SoundFrame(stack'[k + 1], readers)
    BY <1>10, <2>1 DEF SoundFrame
  <2> QED
    BY <1>6, <1>8, <1>11, <2>2
<1>13. ASSUME NEW k \in 1 .. n + 1
       PROVE  IF k = n + 1 THEN stack'[k].path = <<>> ELSE WaitsFor(stack'[k + 1], stack'[k])
  <2>1. CASE k = 1
    <3>1. 1 \in 1 .. n /\ k # n + 1
      BY <1>2, <2>1
    <3>2. stack'[2].path = Top.path /\ stack'[2].rest = Top.rest
      BY <1>2, <1>10, <3>1
    <3>3. stack'[1].path = Append(Top.path, slot)
      BY <1>6, <1>8 DEF path
    <3>4. WaitsFor(stack'[2], stack'[1])
      BY <1>1, <1>4, <3>2, <3>3 DEF WaitsFor, Step
    <3> QED
      BY <2>1, <3>1, <3>4
  <2>2. CASE k # 1
    <3> DEFINE j == k - 1
    <3>1. j \in 1 .. n /\ j + 1 = k /\ (k = n + 1 <=> j = n) /\ (j # n => j + 1 \in 1 .. n)
      BY <1>2, <2>2
    <3>2. \A i \in DOMAIN stack :
             IF i = Len(stack) THEN stack[i].path = <<>> ELSE WaitsFor(stack[i + 1], stack[i])
      BY <1>1 DEF StackInv
    <3>3. IF j = n THEN stack[j].path = <<>> ELSE WaitsFor(stack[j + 1], stack[j])
      BY <1>2, <3>1, <3>2
    <3>4. stack'[k].path = stack[j].path
      BY <1>10, <3>1
    <3>5. j # n => stack'[k + 1].path = stack[j + 1].path /\ stack'[k + 1].rest = stack[j + 1].rest
      BY <1>10, <3>1
    <3> HIDE DEF j
    <3> QED
      BY <3>1, <3>3, <3>4, <3>5 DEF WaitsFor
  <2> QED
    BY <2>1, <2>2
<1>14. StackInv(readers)'
  BY <1>1, <1>8, <1>9, <1>12, <1>13 DEF StackInv
<1>15. ASSUME NEW o \in heap'
       PROVE  /\ o \in Seq(Slots) /\ o # <<>>
              /\ \E k \in DOMAIN stack' : o = stack'[k].path \/ BelongsTo(o, stack'[k])
  <2>1. CASE o = path
    BY <1>5, <1>6, <1>8, <1>9, <1>2, <2>1
  <2>2. CASE o \in heap
    <3>1. PICK k \in 1 .. n : o = stack[k].path \/ BelongsTo(o, stack[k])
      BY <1>1, <1>2, <2>2 DEF HeapInv
    <3>2. o = stack'[k + 1].path \/ BelongsTo(o, stack'[k + 1])
      BY <1>10, <3>1 DEF BelongsTo
    <3>3. k + 1 \in DOMAIN stack'
      BY <1>2, <1>9
    <3> QED
      BY <1>1, <2>2, <3>2, <3>3 DEF HeapInv
  <2> QED
    BY <1>1, <2>1, <2>2
<1>16. HeapInv'
  BY <1>15 DEF HeapInv, BelongsTo
<1> QED
  BY <1>14, <1>16 DEF LayoutInv

\* The outermost constructor starts with nothing allocated.
LEMMA ConstructKeeps ==
    ASSUME NEW readers, \A l \in readers : SoundReader(l, readers),
           LayoutInv(readers), NEW layout \in readers, Construct(layout)
    PROVE  LayoutInv(readers)'
<1> DEFINE f == Frame(<<>>, layout)
<1>1. /\ stack = <<>> /\ heap' = heap /\ parse' = "reading" /\ stack' = <<f>>
  BY DEF LayoutInv, StackInv, Construct
<1>2. heap = {}
  BY <1>1 DEF LayoutInv, HeapInv
<1>3. f \in Frames(readers) /\ SoundFrame(f, readers) /\ f.path = <<>>
  <2>1. /\ layout.nulled \subseteq Members /\ layout.frees \subseteq Members
        /\ layout.frees \ layout.nulled \subseteq Unions
        /\ layout.steps \in Seq(StepsOf(layout.frees, readers))
    BY DEF SoundReader
  <2>2. StepsOf(layout.frees, readers) \subseteq StepsOf(Members, readers)
    BY <2>1 DEF StepsOf
  <2>3. layout.steps \in Seq(StepsOf(Members, readers)) /\ <<>> \in Seq(Slots)
    BY <2>1, <2>2
  <2> QED
    BY <2>1, <2>3 DEF Frame, Frames, SoundFrame
<1> HIDE DEF f
<1>4. /\ stack' \in Seq(Frames(readers)) /\ Len(stack') = 1 /\ DOMAIN stack' = {1}
      /\ stack'[1] = f /\ stack' # <<>>
  BY <1>1, <1>3
<1>5. StackInv(readers)'
  BY <1>1, <1>3, <1>4 DEF StackInv
<1>6. HeapInv'
  BY <1>1, <1>2 DEF HeapInv
<1> QED
  BY <1>5, <1>6 DEF LayoutInv

\* A constructor that returns hands its objects to the one that waits for it.
LEMMA ConstructedKeeps ==
    ASSUME NEW readers, LayoutInv(readers), Constructed
    PROVE  LayoutInv(readers)'
<1> DEFINE n == Len(stack)
           up == stack[2]
           f == [up EXCEPT !.rest = Tail(@), !.held = @ \cup {Head(up.rest).member}]
<1>1. /\ StackInv(readers) /\ HeapInv /\ parse = "reading" /\ stack # <<>> /\ heap' = heap
      /\ n = 1 => parse' = "built" /\ stack' = stack
      /\ n # 1 => parse' = "reading" /\ stack' = <<f>> \o SubSeq(stack, 3, n)
  BY DEF LayoutInv, StackInv, Constructed
<1>2. /\ n \in Nat \ {0} /\ DOMAIN stack = 1 .. n /\ Top = stack[1]
      /\ stack \in Seq(Frames(readers)) /\ Top \in Frames(readers)
  BY <1>1, TopFrame DEF StackInv
<1>3. CASE n = 1
  BY <1>1, <1>3 DEF LayoutInv, StackInv, HeapInv, BelongsTo
<1>4. CASE n # 1
  <2>1. n - 1 \in Nat \ {0} /\ 1 \in 1 .. n - 1 /\ 2 \in 1 .. n /\ n >= 2
    BY <1>2, <1>4
  <2>2. \A k \in DOMAIN stack :
           IF k = Len(stack) THEN stack[k].path = <<>> ELSE WaitsFor(stack[k + 1], stack[k])
    BY <1>1 DEF StackInv
  <2>3. WaitsFor(up, Top)
    BY <1>2, <1>4, <2>1, <2>2
  <2>4. up \in Frames(readers) /\ SoundFrame(up, readers)
    BY <1>1, <1>2, <2>1 DEF StackInv
  <2> DEFINE m == Head(up.rest).member
             i == Head(up.rest).index
             slot == [member |-> m, index |-> i, owned |-> TRUE]
  <2>5. /\ up.rest # <<>> /\ Head(up.rest).op = "new"
        /\ Top.path = Append(up.path, slot)
    BY <2>3 DEF WaitsFor
  <2>6. m \in up.frees /\ i \in Nat /\ up.frees \subseteq Members
        /\ up.rest \in Seq(StepsOf(Members, readers)) /\ up.rest \in Seq(StepsOf(up.frees, readers))
    <3>1. up.rest \in Seq(StepsOf(up.frees, readers)) /\ up.frees \subseteq Members
          /\ up.rest \in Seq(StepsOf(Members, readers))
      BY <2>4 DEF SoundFrame, Frames
    <3>2. Head(up.rest) \in StepsOf(up.frees, readers)
      BY <2>5, <3>1
    <3>3. \A s \in StepsOf(up.frees, readers) :
             s.op = "new" => s.member \in up.frees /\ s.index \in Nat
      BY DEF StepsOf
    <3> QED
      BY <2>5, <3>1, <3>2, <3>3
  <2>7. \A S : up.rest \in Seq(S) => Tail(up.rest) \in Seq(S)
    BY <2>5
  <2>8. /\ f \in Frames(readers) /\ f.path = up.path /\ f.frees = up.frees
        /\ f.held = up.held \cup {m} /\ f.nulled = up.nulled /\ f.rest = Tail(up.rest)
    BY <2>4, <2>6, <2>7 DEF Frames
  <2> HIDE DEF f
  <2>9. SoundFrame(f, readers)
    BY <2>4, <2>6, <2>7, <2>8 DEF SoundFrame
  <2>10. /\ SubSeq(stack, 3, n) \in Seq(Frames(readers)) /\ Len(SubSeq(stack, 3, n)) = n - 2
         /\ \A k \in 1 .. n - 2 : SubSeq(stack, 3, n)[k] = stack[k + 2]
    BY <1>2, <2>1
  <2>11. /\ stack' \in Seq(Frames(readers)) /\ Len(stack') = n - 1 /\ stack'[1] = f
         /\ \A k \in 2 .. n - 1 : stack'[k] = stack[k + 1]
    <3>1. stack' = <<f>> \o SubSeq(stack, 3, n)
      BY <1>1, <1>4
    <3>2. <<f>> \in Seq(Frames(readers)) /\ Len(<<f>>) = 1 /\ <<f>>[1] = f
      BY <2>8
    <3>3. stack' \in Seq(Frames(readers)) /\ Len(stack') = n - 1 /\ stack'[1] = f
      BY <2>1, <2>10, <3>1, <3>2
    <3>4. ASSUME NEW k \in 2 .. n - 1 PROVE stack'[k] = stack[k + 1]
      <4>1. k - 1 \in 1 .. n - 2 /\ (k - 1) + 2 = k + 1
        BY <1>2
      <4>2. stack'[k] = SubSeq(stack, 3, n)[k - 1]
        BY <2>10, <3>1, <3>2, <4>1
      <4> QED
        BY <2>10, <4>1, <4>2
    <3> QED
      BY <3>3, <3>4
  <2>12. DOMAIN stack' = 1 .. n - 1 /\ stack' # <<>>
    BY <2>1, <2>11
  <2>13. \A k \in 1 .. n - 1 : SoundFrame(stack'[k], readers)
    <3>1. \A k \in 1 .. n : SoundFrame(stack[k], readers)
      BY <1>1, <1>2 DEF StackInv
    <3>2. \A k \in 1 .. n - 1 : k = 1 \/ (k \in 2 .. n - 1 /\ k + 1 \in 1 .. n)
      BY <1>2
    <3> QED
      BY <2>9, <2>11, <3>1, <3>2
  <2>14. ASSUME NEW k \in 1 .. n - 1
         PROVE  IF k = n - 1 THEN stack'[k].path = <<>> ELSE WaitsFor(stack'[k + 1], stack'[k])
    <3>1. /\ k + 1 \in 1 .. n /\ (k = n - 1 <=> k + 1 = n)
          /\ k # n - 1 => k + 1 \in 2 .. n - 1
          /\ k = 1 \/ k \in 2 .. n - 1
      <4>1. n \in Nat
        BY <1>2
      <4> HIDE DEF n
      <4> QED
        BY <4>1
    <3>2. stack'[k].path = stack[k + 1].path
      BY <2>8, <2>11, <3>1
    <3>3. IF k + 1 = n THEN stack[k + 1].path = <<>> ELSE WaitsFor(stack[(k + 1) + 1], stack[k + 1])
      BY <1>2, <2>2, <3>1
    <3>4. k # n - 1 => stack'[k + 1] = stack[(k + 1) + 1]
      BY <2>11, <3>1
    <3> QED
      BY <3>1, <3>2, <3>3, <3>4 DEF WaitsFor
  <2>15. StackInv(readers)'
    BY <1>1, <1>4, <2>11, <2>12, <2>13, <2>14 DEF StackInv
  <2>16. slot \in Slots /\ up.path \in Seq(Slots) /\ Top.path \in Seq(Slots)
    BY <1>2, <2>4, <2>6 DEF Slots, Frames
  <2>17. /\ Top.path # <<>> /\ Len(Top.path) = Len(up.path) + 1
         /\ SubSeq(Top.path, 1, Len(up.path)) = up.path
         /\ Top.path[Len(up.path) + 1] = slot
    <3> HIDE DEF slot
    <3> QED
      BY <2>5, <2>16, Inside
  <2>18. Len(up.path) \in Nat
    BY <2>16
  <2>19. slot.member = m /\ slot.owned
    OBVIOUS
  <2> HIDE DEF slot, m
  <2>20. ASSUME NEW o \in heap
         PROVE  \E k \in DOMAIN stack' : o = stack'[k].path \/ BelongsTo(o, stack'[k])
    <3>1. o \in Seq(Slots) /\ Len(o) \in Nat
      BY <1>1 DEF HeapInv
    <3>2. PICK k \in 1 .. n : o = stack[k].path \/ BelongsTo(o, stack[k])
      BY <1>1, <1>2 DEF HeapInv
    <3>3. CASE k = 1 /\ o = stack[k].path
      <4>1. o = Top.path
        BY <1>2, <3>3
      <4>2. \A j \in Len(up.path) + 1 .. Len(o) : o[j].owned
        BY <2>17, <2>18, <2>19, <4>1
      <4>3. BelongsTo(o, f)
        BY <2>6, <2>8, <2>17, <2>18, <2>19, <4>1, <4>2 DEF BelongsTo
      <4> QED
        BY <2>11, <2>12, <2>1, <4>3
    <3>4. CASE k = 1 /\ BelongsTo(o, stack[k])
      <4>1. /\ Len(o) > Len(Top.path) /\ SubSeq(o, 1, Len(Top.path)) = Top.path
            /\ \A j \in Len(Top.path) + 1 .. Len(o) : o[j].owned
        BY <1>2, <3>4 DEF BelongsTo
      <4>2. Len(o) >= Len(up.path) + 1 /\ SubSeq(o, 1, Len(up.path) + 1) = Append(up.path, slot)
        BY <2>5, <2>17, <2>18, <3>1, <4>1
      <4>3. SubSeq(o, 1, Len(up.path)) = up.path /\ o[Len(up.path) + 1] = slot
        BY <2>16, <3>1, <4>2, FurtherInside
      <4>4. \A j \in Len(up.path) + 1 .. Len(o) : j = Len(up.path) + 1 \/ j \in Len(Top.path) + 1 .. Len(o)
        BY <2>17, <2>18, <3>1
      <4>5. \A j \in Len(up.path) + 1 .. Len(o) : o[j].owned
        BY <2>19, <4>1, <4>3, <4>4
      <4>6. Len(o) > Len(up.path)
        BY <2>18, <3>1, <4>2
      <4>7. BelongsTo(o, f)
        BY <2>6, <2>8, <2>19, <4>3, <4>5, <4>6 DEF BelongsTo
      <4> QED
        BY <2>11, <2>12, <2>1, <4>7
    <3>5. CASE k # 1
      <4>1. k - 1 \in 1 .. n - 1 /\ (k - 1) + 1 = k /\ (k - 1 = 1 \/ k - 1 \in 2 .. n - 1)
        BY <1>2, <3>5
      <4>2. /\ stack'[k - 1].path = stack[k].path /\ stack'[k - 1].frees = stack[k].frees
            /\ stack[k].held \subseteq stack'[k - 1].held
        BY <2>8, <2>11, <4>1
      <4>3. o = stack'[k - 1].path \/ BelongsTo(o, stack'[k - 1])
        BY <3>2, <4>2 DEF BelongsTo
      <4> QED
        BY <2>12, <4>1, <4>3
    <3> QED
      BY <3>2, <3>3, <3>4, <3>5
  <2>21. HeapInv'
    BY <1>1, <2>20 DEF HeapInv, BelongsTo
  <2> QED
    BY <2>15, <2>21 DEF LayoutInv
<1> QED
  BY <1>3, <1>4

\* Unwinding deletes the objects of the constructor that throws, and its own.
LEMMA UnwindKeeps ==
    ASSUME NEW readers, LayoutInv(readers), Unwind
    PROVE  LayoutInv(readers)'
<1> DEFINE n == Len(stack)
<1>1. /\ StackInv(readers) /\ HeapInv /\ parse = "unwinding" /\ stack # <<>>
      /\ heap' = heap \ (Released(Top) \cup {Top.path}) /\ stack' = Tail(stack)
      /\ parse' = IF n = 1 THEN "failed" ELSE "unwinding"
  BY DEF LayoutInv, StackInv, Unwind
<1>2. /\ n \in Nat \ {0} /\ DOMAIN stack = 1 .. n /\ Top = stack[1]
      /\ Top \in Frames(readers)
      /\ stack' \in Seq(Frames(readers)) /\ Len(stack') = n - 1
      /\ \A k \in 1 .. n - 1 : stack'[k] = stack[k + 1]
  BY <1>1, TopFrame
<1>3. DOMAIN stack' = 1 .. n - 1 /\ (stack' = <<>> <=> n = 1)
  BY <1>2
<1>4. \A k \in 1 .. n - 1 :
         k + 1 \in 1 .. n /\ (k = n - 1 <=> k + 1 = n) /\ (k # n - 1 => k + 1 \in 1 .. n - 1)
  <2>1. n \in Nat
    BY <1>2
  <2> HIDE DEF n
  <2> QED
    BY <2>1
<1>5. \A k \in 1 .. n - 1 : SoundFrame(stack'[k], readers)
  BY <1>1, <1>2, <1>4 DEF StackInv
<1>6. ASSUME NEW k \in 1 .. n - 1
      PROVE  IF k = n - 1 THEN stack'[k].path = <<>> ELSE WaitsFor(stack'[k + 1], stack'[k])
  <2>1. \A j \in DOMAIN stack :
           IF j = Len(stack) THEN stack[j].path = <<>> ELSE WaitsFor(stack[j + 1], stack[j])
    BY <1>1 DEF StackInv
  <2>2. IF k + 1 = n THEN stack[k + 1].path = <<>> ELSE WaitsFor(stack[(k + 1) + 1], stack[k + 1])
    BY <1>2, <1>4, <2>1
  <2>3. stack'[k] = stack[k + 1] /\ (k # n - 1 => stack'[k + 1] = stack[(k + 1) + 1])
    BY <1>2, <1>4
  <2> QED
    BY <1>4, <2>2, <2>3
<1>7. StackInv(readers)'
  BY <1>1, <1>2, <1>3, <1>5, <1>6 DEF StackInv
<1>8. ASSUME NEW o \in heap'
      PROVE  \E k \in DOMAIN stack' : o = stack'[k].path \/ BelongsTo(o, stack'[k])
  <2>1. o \in heap /\ o \in Seq(Slots)
    BY <1>1 DEF HeapInv
  <2>2. PICK k \in 1 .. n : o = stack[k].path \/ BelongsTo(o, stack[k])
    BY <1>1, <1>2, <2>1 DEF HeapInv
  <2>3. k # 1
    <3>1. SUFFICES ASSUME k = 1 PROVE FALSE
      OBVIOUS
    <3>2. o # Top.path /\ o \notin Released(Top)
      BY <1>1
    <3>3. BelongsTo(o, Top)
      BY <1>2, <2>2, <3>1, <3>2
    <3>4. Len(Top.path) \in Nat /\ Len(o) \in Nat
      BY <1>2, <2>1 DEF Frames
    <3>5. \A j \in Len(Top.path) + 2 .. Len(o) : j \in Len(Top.path) + 1 .. Len(o)
      BY <3>4
    <3> QED
      BY <2>1, <3>2, <3>3, <3>5 DEF BelongsTo, Released
  <2>4. k - 1 \in 1 .. n - 1 /\ (k - 1) + 1 = k
    BY <1>2, <2>3
  <2>5. stack'[k - 1] = stack[k]
    BY <1>2, <2>4
  <2> QED
    BY <1>3, <2>2, <2>4, <2>5
<1>9. HeapInv'
  BY <1>1, <1>8 DEF HeapInv, BelongsTo
<1> QED
  BY <1>7, <1>9 DEF LayoutInv

\* The destructor of the outermost object deletes all the others.
LEMMA ReleaseKeeps ==
    ASSUME NEW readers, LayoutInv(readers), Release
    PROVE  LayoutInv(readers)'
<1>1. /\ StackInv(readers) /\ HeapInv /\ parse = "built" /\ stack # <<>> /\ Len(stack) = 1
      /\ heap' = heap \ Released(Top) /\ stack' = <<>> /\ parse' = "idle"
  BY DEF LayoutInv, StackInv, Release
<1>2. /\ DOMAIN stack = {1} /\ Top = stack[1] /\ Top \in Frames(readers)
  BY <1>1, TopFrame
<1>3. Top.path = <<>>
  BY <1>1, <1>2 DEF StackInv
<1>4. ASSUME NEW o \in heap PROVE o \in Released(Top)
  <2>1. o # <<>> /\ o \in Seq(Slots) /\ (o = Top.path \/ BelongsTo(o, Top))
    BY <1>1, <1>2 DEF HeapInv
  <2>2. BelongsTo(o, Top)
    BY <1>3, <2>1
  <2>3. Len(Top.path) \in Nat /\ Len(o) \in Nat
    BY <1>2, <2>1 DEF Frames
  <2>4. \A j \in Len(Top.path) + 2 .. Len(o) : j \in Len(Top.path) + 1 .. Len(o)
    BY <2>3
  <2> QED
    BY <2>2, <2>4 DEF BelongsTo, Released
<1>5. heap' = {}
  BY <1>1, <1>4
<1>6. stack' \in Seq(Frames(readers)) /\ DOMAIN stack' = {}
  BY <1>1
<1>7. StackInv(readers)'
  BY <1>1, <1>6 DEF StackInv
<1>8. HeapInv'
  BY <1>5 DEF HeapInv
<1> QED
  BY <1>7, <1>8 DEF LayoutInv

LEMMA ReadStepKeeps ==
    ASSUME NEW readers, \A l \in readers : SoundReader(l, readers),
           LayoutInv(readers), ReadStep
    PROVE  LayoutInv(readers)'
<1>1. CASE WildDelete
  BY <1>1 DEF LayoutInv, StackInv, HeapInv, BelongsTo, WildDelete
<1> QED
  BY <1>1, ReadingKeeps, ThrowKeeps, NewVectorKeeps, NewObjectKeeps, ConstructedKeeps,
     UnwindKeeps DEF ReadStep

-----------------------------------------------------------------------------
(* The readers of a column's documents.                                    *)

\* Steps one behind the other.
LEMMA OneStep ==
    ASSUME NEW frees, NEW readers
    PROVE  /\ Read \in StepsOf(frees, readers) /\ Mark \in StepsOf(frees, readers)
           /\ \A m \in frees : /\ Vector(m) \in StepsOf(frees, readers)
                               /\ [op |-> "none", member |-> m] \in StepsOf(frees, readers)
           /\ \A m \in frees, i \in Nat, l \in readers :
                 Element(m, i, l) \in StepsOf(frees, readers)
           /\ \A m \in frees, l \in readers : New(m, l) \in StepsOf(frees, readers)
BY DEF Read, Mark, Vector, New, Element, StepsOf

LEMMA ManyElements ==
    ASSUME NEW frees, NEW readers, NEW m \in frees, NEW layouts \in Seq(readers)
    PROVE  Elements(m, layouts) \in Seq(StepsOf(frees, readers))
<1>1. DOMAIN layouts = 1 .. Len(layouts) /\ Len(layouts) \in Nat
  OBVIOUS
<1>2. \A i \in 1 .. Len(layouts) : Element(m, i, layouts[i]) \in StepsOf(frees, readers)
  BY <1>1, OneStep
<1> QED
  BY <1>1, <1>2 DEF Elements

LEMMA UnionSteps ==
    ASSUME NEW frees, NEW readers, NEW m \in frees, NEW options \in Seq(readers)
    PROVE  Union(m, options) \in Seq(StepsOf(frees, readers))
<1>1. DOMAIN options = 1 .. Len(options) /\ Len(options) \in Nat
  OBVIOUS
<1>2. [i \in DOMAIN options |-> New(m, options[i])] \in Seq(StepsOf(frees, readers))
  BY <1>1, OneStep
<1>3. <<[op |-> "none", member |-> m]>> \in Seq(StepsOf(frees, readers))
  BY OneStep
<1> QED
  BY <1>2, <1>3 DEF Union

LEMMA SoundLayout ==
    ASSUME NEW readers, NEW nulled \in SUBSET Members, NEW frees \in SUBSET Members,
           frees \ nulled \subseteq Unions, NEW steps \in Seq(StepsOf(frees, readers))
    PROVE  SoundReader(Layout(nulled, frees, steps), readers)
<1> DEFINE l == Layout(nulled, frees, steps)
<1>1. l.nulled = nulled /\ l.frees = frees /\ l.steps = steps
  BY DEF Layout
<1> HIDE DEF l
<1>2. SoundReader(l, readers)
  BY <1>1 DEF SoundReader
<1> QED
  BY <1>2 DEF l

LEMMA MetaReadersSound ==
    ASSUME NEW readers, MetaReaders \subseteq readers, NEW l \in MetaReaders
    PROVE  SoundReader(l, readers)
<1>1. /\ block \in readers /\ c_p_element \in readers /\ c_s0_element \in readers
      /\ s_s_element \in readers /\ c_s1_element \in readers /\ s_d_os_element \in readers
      /\ c_s_d_os_element \in readers /\ c_s_d_os1_element \in readers
  BY DEF MetaReaders
<1>2. SoundReader(s_s_element, readers)
  BY OneStep DEF SoundReader, s_s_element, Plain, Layout
<1>3. SoundReader(c_s1_element, readers)
  BY OneStep DEF SoundReader, c_s1_element, Plain, Layout
<1>4. SoundReader(c_s_d_os1_element, readers)
  BY OneStep DEF SoundReader, c_s_d_os1_element, Plain, Layout
<1> HIDE DEF s_s_element, c_s1_element, c_s_d_os1_element
<1>5. SoundReader(c_s0_element, readers)
  <2> DEFINE F == {"ss", "cs"}
             steps == <<Mark, Read, New("ss", s_s_element), Read, New("cs", c_s1_element), Mark>>
  <2>1. c_s0_element = Layout(F, F, steps)
    BY DEF c_s0_element
  <2>2. New("ss", s_s_element) \in StepsOf(F, readers) /\ New("cs", c_s1_element) \in StepsOf(F, readers)
    BY <1>1, OneStep
  <2>3. F \subseteq Members
    BY DEF Members
  <2> HIDE DEF F
  <2>4. steps \in Seq(StepsOf(F, readers))
    BY <2>2, OneStep
  <2> HIDE DEF steps
  <2> QED
    BY <2>1, <2>3, <2>4, SoundLayout
<1>6. SoundReader(c_s_d_os_element, readers)
  <2> DEFINE F == {"csdos"}
             steps == <<Mark, Read, New("csdos", c_s_d_os1_element), Mark>>
  <2>1. c_s_d_os_element = Layout(F, F, steps)
    BY DEF c_s_d_os_element
  <2>2. New("csdos", c_s_d_os1_element) \in StepsOf(F, readers)
    BY <1>1, OneStep
  <2>3. F \subseteq Members
    BY DEF Members
  <2> HIDE DEF F
  <2>4. steps \in Seq(StepsOf(F, readers))
    BY <2>2, OneStep
  <2> HIDE DEF steps
  <2> QED
    BY <2>1, <2>3, <2>4, SoundLayout
<1>7. SoundReader(s_d_os_element, readers)
  <2> DEFINE F == {"csdos"}
             steps == <<Mark, New("csdos", c_s_d_os_element), Mark>>
  <2>1. s_d_os_element = Layout(F, F, steps)
    BY DEF s_d_os_element
  <2>2. New("csdos", c_s_d_os_element) \in StepsOf(F, readers)
    BY <1>1, OneStep
  <2>3. F \subseteq Members
    BY DEF Members
  <2> HIDE DEF F
  <2>4. steps \in Seq(StepsOf(F, readers))
    BY <2>2, OneStep
  <2> HIDE DEF steps
  <2> QED
    BY <2>1, <2>3, <2>4, SoundLayout
<1>8. SoundReader(c_p_element, readers)
  <2> DEFINE F == {"cs"}
             steps == <<Mark, Read, New("cs", c_s0_element), Mark>>
  <2>1. c_p_element = Layout(F, F, steps)
    BY DEF c_p_element
  <2>2. New("cs", c_s0_element) \in StepsOf(F, readers)
    BY <1>1, OneStep
  <2>3. F \subseteq Members
    BY DEF Members
  <2> HIDE DEF F
  <2>4. steps \in Seq(StepsOf(F, readers))
    BY <2>2, OneStep
  <2> HIDE DEF steps
  <2> QED
    BY <2>1, <2>3, <2>4, SoundLayout
<1>9. SoundReader(block, readers)
  <2> DEFINE F == {"cp", "sdos"}
             steps == <<New("cp", c_p_element), New("sdos", s_d_os_element)>>
  <2>1. block = Layout(F, F, steps)
    BY DEF block
  <2>2. New("cp", c_p_element) \in StepsOf(F, readers) /\ New("sdos", s_d_os_element) \in StepsOf(F, readers)
    BY <1>1, OneStep
  <2>3. F \subseteq Members
    BY DEF Members
  <2> HIDE DEF F
  <2>4. steps \in Seq(StepsOf(F, readers))
    BY <2>2, OneStep
  <2> HIDE DEF steps
  <2> QED
    BY <2>1, <2>3, <2>4, SoundLayout
<1>10. SoundReader(column_data_idfmeta, readers)
  <2> DEFINE F == {"blocks"}
             steps == <<New("blocks", block)>>
  <2>1. column_data_idfmeta = Layout(F, F, steps)
    BY DEF column_data_idfmeta
  <2>2. New("blocks", block) \in StepsOf(F, readers)
    BY <1>1, OneStep
  <2>3. F \subseteq Members
    BY DEF Members
  <2> HIDE DEF F
  <2>4. steps \in Seq(StepsOf(F, readers))
    BY <2>2, OneStep
  <2> HIDE DEF steps
  <2> QED
    BY <2>1, <2>3, <2>4, SoundLayout
<1> QED
  BY <1>2, <1>3, <1>4, <1>5, <1>6, <1>7, <1>8, <1>9, <1>10 DEF MetaReaders

LEMMA IdfReadersSound ==
    ASSUME NEW readers, NEW segments, IsSeq(segments),
           \A i \in DOMAIN segments : IsSeq(segments[i].primary_segment),
           IdfReaders(segments) \subseteq readers, NEW l \in IdfReaders(segments)
    PROVE  SoundReader(l, readers)
<1>1. /\ segment_entry \in readers
      /\ \A i \in DOMAIN segments : segment(segments[i]) \in readers
      /\ DOMAIN segments = 1 .. Len(segments) /\ Len(segments) \in Nat
  BY DEF IdfReaders, IsSeq
<1>2. SoundReader(segment_entry, readers)
  BY OneStep DEF SoundReader, segment_entry, Plain, Layout
<1>3. ASSUME NEW i \in DOMAIN segments PROVE SoundReader(segment(segments[i]), readers)
  <2> DEFINE s == segments[i]
             F == {"primary_segment", "sub_segment"}
             a == <<Read, Vector("primary_segment")>>
             b == Elements("primary_segment", [j \in DOMAIN s.primary_segment |-> segment_entry])
             c == <<Read, Vector("sub_segment"), Read>>
             steps == a \o b \o c
  <2>1. segment(s) = Layout(F, F, steps)
    BY DEF segment
  <2>2. F \subseteq Members
    BY DEF Members
  <2>3. /\ Vector("primary_segment") \in StepsOf(F, readers)
        /\ Vector("sub_segment") \in StepsOf(F, readers)
    BY <1>1, OneStep
  <2>4. b \in Seq(StepsOf(F, readers))
    <3>1. [j \in DOMAIN s.primary_segment |-> segment_entry] \in Seq(readers)
      <4>1. IsSeq(s.primary_segment)
        OBVIOUS
      <4> HIDE DEF s
      <4>2. /\ DOMAIN s.primary_segment = 1 .. Len(s.primary_segment)
            /\ Len(s.primary_segment) \in Nat
        BY <4>1 DEF IsSeq
      <4> QED
        BY <1>1, <4>2
    <3>2. "primary_segment" \in F
      OBVIOUS
    <3> HIDE DEF F
    <3> QED
      BY <3>1, <3>2, ManyElements
  <2> HIDE DEF F
  <2>5. a \in Seq(StepsOf(F, readers))
    BY <2>3, OneStep
  <2>6. c \in Seq(StepsOf(F, readers))
    BY <2>3, OneStep
  <2> HIDE DEF a, b, c
  <2>7. steps \in Seq(StepsOf(F, readers))
    BY <2>4, <2>5, <2>6
  <2> HIDE DEF steps
  <2> QED
    BY <2>1, <2>2, <2>7, SoundLayout
<1>4. SoundReader(column_data_idf(segments), readers)
  <2> DEFINE F == {"segments"}
             a == <<Vector("segments")>>
             b == Elements("segments", [i \in DOMAIN segments |-> segment(segments[i])])
             steps == a \o b
  <2>1. column_data_idf(segments) = Layout(F, F, steps)
    BY DEF column_data_idf
  <2>2. F \subseteq Members
    BY DEF Members
  <2>3. /\ Vector("segments") \in StepsOf(F, readers)
    BY <1>1, OneStep
  <2>4. b \in Seq(StepsOf(F, readers))
    <3>1. [i \in DOMAIN segments |-> segment(segments[i])] \in Seq(readers)
      BY <1>1
    <3>2. "segments" \in F
      OBVIOUS
    <3> HIDE DEF F
    <3> QED
      BY <3>1, <3>2, ManyElements
  <2> HIDE DEF F
  <2>5. a \in Seq(StepsOf(F, readers))
    BY <2>3, OneStep
  <2> HIDE DEF a, b
  <2>6. steps \in Seq(StepsOf(F, readers))
    BY <2>4, <2>5
  <2> HIDE DEF steps
  <2> QED
    BY <2>1, <2>2, <2>6, SoundLayout
<1> QED
  BY <1>2, <1>3, <1>4 DEF IdfReaders

LEMMA DictionaryReadersSound ==
    ASSUME NEW readers, NEW dict, IsSeq(dict.pages), IsSeq(dict.handles),
           DictionaryReaders(dict) \subseteq readers, NEW l \in DictionaryReaders(dict)
    PROVE  SoundReader(l, readers)
<1>1. /\ hash_info \in readers /\ number_data \in readers /\ vector_of_vectors \in readers
      /\ string_data(dict) \in readers /\ page_layout \in readers
      /\ uncompressed_strings \in readers /\ compressed_strings \in readers
      /\ dictionary_record_handles_vector(dict.handles) \in readers
      /\ string_record_handle \in readers
      /\ \A i \in DOMAIN dict.pages : dictionary_page(dict.pages[i]) \in readers
      /\ DOMAIN dict.pages = 1 .. Len(dict.pages) /\ Len(dict.pages) \in Nat
      /\ DOMAIN dict.handles = 1 .. Len(dict.handles) /\ Len(dict.handles) \in Nat
  BY DEF DictionaryReaders, IsSeq
<1>2. SoundReader(string_record_handle, readers)
  BY OneStep DEF SoundReader, string_record_handle, Plain, Layout
<1>3. SoundReader(page_layout, readers)
  BY OneStep DEF SoundReader, page_layout, Plain, Layout
<1>4. SoundReader(uncompressed_strings, readers)
  BY OneStep DEF SoundReader, uncompressed_strings, Plain, Layout
<1>5. SoundReader(compressed_strings, readers)
  <2> DEFINE F == {"encode_array"}
             a == <<Read, Vector("encode_array"), Read>>
             steps == a
  <2>1. compressed_strings = Layout(F, F, steps)
    BY DEF compressed_strings
  <2>2. F \subseteq Members
    BY DEF Members
  <2>3. /\ Vector("encode_array") \in StepsOf(F, readers)
    BY <1>1, OneStep
  <2> HIDE DEF F
  <2>4. a \in Seq(StepsOf(F, readers))
    BY <2>3, OneStep
  <2> HIDE DEF a
  <2>5. steps \in Seq(StepsOf(F, readers))
    BY <2>4
  <2> HIDE DEF steps
  <2> QED
    BY <2>1, <2>2, <2>5, SoundLayout
<1>6. SoundReader(vector_of_vectors, readers)
  <2> DEFINE F == {"values"}
             a == <<Read, Vector("values"), Read>>
             steps == a
  <2>1. vector_of_vectors = Layout(F, F, steps)
    BY DEF vector_of_vectors
  <2>2. F \subseteq Members
    BY DEF Members
  <2>3. /\ Vector("values") \in StepsOf(F, readers)
    BY <1>1, OneStep
  <2> HIDE DEF F
  <2>4. a \in Seq(StepsOf(F, readers))
    BY <2>3, OneStep
  <2> HIDE DEF a
  <2>5. steps \in Seq(StepsOf(F, readers))
    BY <2>4
  <2> HIDE DEF steps
  <2> QED
    BY <2>1, <2>2, <2>5, SoundLayout
<1>7. SoundReader(hash_info, readers)
  <2> DEFINE F == {"hash_elements"}
             a == <<Vector("hash_elements"), Read>>
             steps == a
  <2>1. hash_info = Layout(F, F, steps)
    BY DEF hash_info
  <2>2. F \subseteq Members
    BY DEF Members
  <2>3. /\ Vector("hash_elements") \in StepsOf(F, readers)
    BY <1>1, OneStep
  <2> HIDE DEF F
  <2>4. a \in Seq(StepsOf(F, readers))
    BY <2>3, OneStep
  <2> HIDE DEF a
  <2>5. steps \in Seq(StepsOf(F, readers))
    BY <2>4
  <2> HIDE DEF steps
  <2> QED
    BY <2>1, <2>2, <2>5, SoundLayout
<1>8. SoundReader(number_data, readers)
  <2> DEFINE F == {"vector_of_vectors_info"}
             a == <<New("vector_of_vectors_info", vector_of_vectors)>>
             steps == a
  <2>1. number_data = Layout(F, F, steps)
    BY DEF number_data
  <2>2. F \subseteq Members
    BY DEF Members
  <2>3. /\ New("vector_of_vectors_info", vector_of_vectors) \in StepsOf(F, readers)
    BY <1>1, OneStep
  <2> HIDE DEF F
  <2>4. a \in Seq(StepsOf(F, readers))
    BY <2>3, OneStep
  <2> HIDE DEF a
  <2>5. steps \in Seq(StepsOf(F, readers))
    BY <2>4
  <2> HIDE DEF steps
  <2> QED
    BY <2>1, <2>2, <2>5, SoundLayout
<1>9. SoundReader(dictionary_record_handles_vector(dict.handles), readers)
  <2> DEFINE F == {"handles"}
             a == <<Read, Mark, Vector("handles")>>
             b == Elements("handles", [i \in DOMAIN dict.handles |-> string_record_handle])
             steps == a \o b
  <2>1. dictionary_record_handles_vector(dict.handles) = Layout(F, F, steps)
    BY DEF dictionary_record_handles_vector
  <2>2. F \subseteq Members
    BY DEF Members
  <2>3. /\ Vector("handles") \in StepsOf(F, readers)
    BY <1>1, OneStep
  <2>4. b \in Seq(StepsOf(F, readers))
    <3>1. [i \in DOMAIN dict.handles |-> string_record_handle] \in Seq(readers)
      BY <1>1
    <3>2. "handles" \in F
      OBVIOUS
    <3> HIDE DEF F
    <3> QED
      BY <3>1, <3>2, ManyElements
  <2> HIDE DEF F
  <2>5. a \in Seq(StepsOf(F, readers))
    BY <2>3, OneStep
  <2> HIDE DEF a, b
  <2>6. steps \in Seq(StepsOf(F, readers))
    BY <2>4, <2>5
  <2> HIDE DEF steps
  <2> QED
    BY <2>1, <2>2, <2>6, SoundLayout
<1>10. SoundReader(string_data(dict), readers)
  <2> DEFINE F == {"page_layout_information", "dictionary_pages", "record_handles"}
             a == <<New("page_layout_information", page_layout), Vector("dictionary_pages")>>
             b == Elements("dictionary_pages", [i \in DOMAIN dict.pages |-> dictionary_page(dict.pages[i])])
             c == <<New("record_handles", dictionary_record_handles_vector(dict.handles))>>
             steps == a \o b \o c
  <2>1. string_data(dict) = Layout(F, F, steps)
    BY DEF string_data
  <2>2. F \subseteq Members
    BY DEF Members
  <2>3. /\ New("page_layout_information", page_layout) \in StepsOf(F, readers)
        /\ Vector("dictionary_pages") \in StepsOf(F, readers)
        /\ New("record_handles", dictionary_record_handles_vector(dict.handles)) \in StepsOf(F, readers)
    BY <1>1, OneStep
  <2>4. b \in Seq(StepsOf(F, readers))
    <3>1. [i \in DOMAIN dict.pages |-> dictionary_page(dict.pages[i])] \in Seq(readers)
      BY <1>1
    <3>2. "dictionary_pages" \in F
      OBVIOUS
    <3> HIDE DEF F
    <3> QED
      BY <3>1, <3>2, ManyElements
  <2> HIDE DEF F
  <2>5. a \in Seq(StepsOf(F, readers))
    BY <2>3, OneStep
  <2>6. c \in Seq(StepsOf(F, readers))
    BY <2>3, OneStep
  <2> HIDE DEF a, b, c
  <2>7. steps \in Seq(StepsOf(F, readers))
    BY <2>4, <2>5, <2>6
  <2> HIDE DEF steps
  <2> QED
    BY <2>1, <2>2, <2>7, SoundLayout
<1>11. ASSUME NEW i \in DOMAIN dict.pages
       PROVE  SoundReader(dictionary_page(dict.pages[i]), readers)
  <2> DEFINE page == dict.pages[i]
             options == CASE page.page_compressed = 0 -> <<uncompressed_strings>>
                          [] page.page_compressed = 1 -> <<compressed_strings>>
                          [] OTHER -> <<>>
             F == {"string_store"}
             Z == {}
             a == <<Read, Mark>>
             b == Union("string_store", options)
             c == <<Mark>>
             steps == a \o b \o c
  <2>1. dictionary_page(page) = Layout(Z, F, steps)
    BY DEF dictionary_page
  <2>2. F \subseteq Members /\ Z \subseteq Members /\ F \ Z \subseteq Unions
    BY DEF Members, Unions
  <2>3. b \in Seq(StepsOf(F, readers))
    <3>1. options \in Seq(readers)
      BY <1>1
    <3>2. "string_store" \in F
      OBVIOUS
    <3> HIDE DEF F, options
    <3> QED
      BY <3>1, <3>2, UnionSteps
  <2> HIDE DEF F, Z
  <2>4. a \in Seq(StepsOf(F, readers))
    BY OneStep
  <2>5. c \in Seq(StepsOf(F, readers))
    BY OneStep
  <2> HIDE DEF a, b, c
  <2>6. steps \in Seq(StepsOf(F, readers))
    BY <2>3, <2>4, <2>5
  <2> HIDE DEF steps
  <2> QED
    BY <2>1, <2>2, <2>6, SoundLayout
<1>12. SoundReader(column_data_dictionary(dict), readers)
  <2> DEFINE options ==
                 CASE dict.dictionary_type = "STRING" -> <<string_data(dict)>>
                   [] dict.dictionary_type \in {"LONG", "REAL"} -> <<number_data>>
                   [] OTHER -> <<>>
             F == {"hash_information", "data"}
             Z == {"hash_information"}
             a == <<Read, New("hash_information", hash_info)>>
             b == Union("data", options)
             steps == a \o b
  <2>1. column_data_dictionary(dict) = Layout(Z, F, steps)
    BY DEF column_data_dictionary
  <2>2. F \subseteq Members /\ Z \subseteq Members /\ F \ Z \subseteq Unions
    BY DEF Members, Unions
  <2>3. /\ New("hash_information", hash_info) \in StepsOf(F, readers)
    BY <1>1, OneStep
  <2>4. b \in Seq(StepsOf(F, readers))
    <3>1. options \in Seq(readers)
      BY <1>1
    <3>2. "data" \in F
      OBVIOUS
    <3> HIDE DEF F, options
    <3> QED
      BY <3>1, <3>2, UnionSteps
  <2> HIDE DEF F, Z
  <2>5. a \in Seq(StepsOf(F, readers))
    BY <2>3, OneStep
  <2> HIDE DEF a, b
  <2>6. steps \in Seq(StepsOf(F, readers))
    BY <2>4, <2>5
  <2> HIDE DEF steps
  <2> QED
    BY <2>1, <2>2, <2>6, SoundLayout
<1> QED
  BY <1>2, <1>3, <1>4, <1>5, <1>6, <1>7, <1>8, <1>9, <1>10, <1>11, <1>12
     DEF DictionaryReaders

-----------------------------------------------------------------------------
(* The ids of the rows.                                                    *)

\* A power of two is not zero: shifts and masks divide by one.
\* The definition of the powers is well-founded.
LEMMA PowerSteps ==
    \A n \in Nat : PowerOf2[n] = IF n = 0 THEN 1 ELSE 2 * PowerOf2[n - 1]
<1> DEFINE A == Nat \ {0}
           Double == [x \in A |-> 2 * x]
           one == 1
<1>1. Double \in [A -> A] /\ one \in A
  OBVIOUS
<1>2. PICK f \in [Nat -> A] : f[0] = one /\ \A n \in Nat : f[n + 1] = Double[f[n]]
  <2> HIDE DEF A, Double, one
  <2> QED
    BY <1>1, NatRecursion
<1>3. ASSUME NEW n \in Nat PROVE f[n] = IF n = 0 THEN 1 ELSE 2 * f[n - 1]
  <2>1. CASE n # 0
    <3>1. n - 1 \in Nat /\ (n - 1) + 1 = n
      BY <2>1
    <3> QED
      BY <1>2, <2>1, <3>1
  <2> QED
    BY <1>2, <2>1
<1>4. f = [n \in Nat |-> IF n = 0 THEN 1 ELSE 2 * f[n - 1]]
  BY <1>2, <1>3
<1> DEFINE g == CHOOSE h : h = [n \in Nat |-> IF n = 0 THEN 1 ELSE 2 * h[n - 1]]
<1>5. PowerOf2 = g
  BY DEF PowerOf2
<1>6. g = [n \in Nat |-> IF n = 0 THEN 1 ELSE 2 * g[n - 1]]
  BY <1>4
<1> HIDE DEF g
<1>7. \A n \in Nat : g[n] = IF n = 0 THEN 1 ELSE 2 * g[n - 1]
  BY <1>6
<1> QED
  BY <1>5, <1>7

LEMMA PowersOf2 == \A n \in Nat : PowerOf2[n] \in Nat \ {0}
<1> DEFINE S == {n \in Nat : PowerOf2[n] \in Nat \ {0}}
<1>1. 0 \in S
  BY PowerSteps
<1>2. ASSUME NEW n \in Nat, n \in S PROVE n + 1 \in S
  <2>1. n + 1 \in Nat /\ n + 1 # 0 /\ (n + 1) - 1 = n
    OBVIOUS
  <2>2. PowerOf2[n + 1] = 2 * PowerOf2[n] /\ PowerOf2[n] \in Nat \ {0}
    BY <1>2, <2>1, PowerSteps
  <2> QED
    BY <2>1, <2>2
<1> HIDE DEF S
<1>3. \A n \in Nat : n \in S
  BY <1>1, <1>2, NatStepwise
<1> QED
  BY <1>3 DEF S

\* The word that holds a value is one of the words.
LEMMA WordOfValue ==
    ASSUME NEW per \in Nat \ {0}, NEW words \in Nat, NEW k \in Nat,
           NEW total, total = words * per, k < total
    PROVE  k \div per \in 0 .. words - 1 /\ k % per \in Nat
<1>1. k \div per \in Nat /\ k % per \in Nat /\ k = per * (k \div per) + (k % per)
  OBVIOUS
<1> DEFINE q == k \div per
           r == k % per
<1>2. q \in Nat /\ r \in Nat /\ k = per * q + r
  BY <1>1
<1> HIDE DEF q, r
<1>3. ASSUME q >= words PROVE FALSE
  <2>1. PICK d \in Nat : q = words + d
    <3>1. q - words \in Nat /\ q = words + (q - words)
      BY <1>2, <1>3
    <3> QED
      BY <3>1
  <2>2. per * q = words * per + per * d
    BY <2>1
  <2>3. per * d \in Nat /\ words * per \in Nat
    BY <2>1
  <2>4. per * q >= words * per
    <3> DEFINE x == per * d
               y == words * per
               z == per * q
    <3>1. z = y + x /\ x \in Nat /\ y \in Nat
      BY <2>2, <2>3
    <3> HIDE DEF x, y, z
    <3>2. z >= y
      BY <3>1
    <3> QED
      BY <3>2 DEF y, z
  <2> DEFINE y == words * per
             z == per * q
  <2>5. z >= y /\ k < y /\ k = z + r /\ y \in Nat /\ z \in Nat
    BY <1>2, <2>3, <2>4, Products
  <2> HIDE DEF y, z
  <2> QED
    BY <1>2, <2>5
<1> QED
  BY <1>2, <1>3 DEF q, r

\* A value unpacked from a word is an id.
LEMMA UnpackedIds ==
    ASSUME NEW words \in Seq(Nat), NEW width \in 1 .. WordBits - 1, NEW base \in Int
    PROVE  ReadBitPacked(words, width, base) \in Seq(0 .. IdSpace - 1)
<1> DEFINE per == WordBits \div width
           Id(k) == LET word == words[1 + (k - 1) \div per]
                        code == (word \div PowerOf2[width * ((k - 1) % per)])
                                % PowerOf2[width]
                    IN  (base + code) % IdSpace
<1>1. WordBits \in Nat /\ width \in Nat \ {0} /\ width <= WordBits /\ IdSpace \in Nat \ {0}
  BY ScaleAssumption
<1>2. per \in Nat \ {0}
  BY <1>1
<1> DEFINE total == Len(words) * per
<1>3. total \in Nat /\ Len(words) \in Nat
  BY <1>2, Products
<1> HIDE DEF per
<1>4. ASSUME NEW k \in 1 .. total PROVE Id(k) \in 0 .. IdSpace - 1
  <2>1. k - 1 \in Nat /\ k - 1 < total /\ total = Len(words) * per
    BY <1>3
  <2> HIDE DEF total
  <2>2. (k - 1) \div per \in 0 .. Len(words) - 1 /\ (k - 1) % per \in Nat
    <3> DEFINE j == k - 1
    <3>1. j \in Nat /\ j < total
      BY <2>1
    <3> HIDE DEF j
    <3>2. j \div per \in 0 .. Len(words) - 1 /\ j % per \in Nat
      BY <1>2, <1>3, <2>1, <3>1, WordOfValue
    <3> QED
      BY <3>2 DEF j
  <2> DEFINE q == (k - 1) \div per
             r == (k - 1) % per
  <2>3. words[1 + q] \in Nat
    BY <2>2
  <2>4. width * r \in Nat
    BY <1>1, <2>2, Products
  <2>5. PowerOf2[width * r] \in Nat \ {0} /\ PowerOf2[width] \in Nat \ {0}
    BY <1>1, <2>4, PowersOf2
  <2> DEFINE w == words[1 + q]
             p == PowerOf2[width * r]
             m == PowerOf2[width]
  <2>6. Id(k) = (base + ((w \div p) % m)) % IdSpace
    OBVIOUS
  <2>7. w \in Nat /\ p \in Nat \ {0} /\ m \in Nat \ {0}
    BY <2>3, <2>5
  <2> HIDE DEF w, p, m
  <2>8. (w \div p) % m \in Int
    BY <2>7
  <2> DEFINE code == (w \div p) % m
  <2> HIDE DEF code
  <2>9. (base + code) % IdSpace \in 0 .. IdSpace - 1
    BY <1>1, <2>8 DEF code
  <2> QED
    BY <2>6, <2>9 DEF code
<1>5. ReadBitPacked(words, width, base) = [k \in 1 .. total |-> Id(k)]
  BY DEF ReadBitPacked, per
<1> HIDE DEF Id, total
<1>6. [k \in 1 .. total |-> Id(k)] \in Seq(0 .. IdSpace - 1)
  BY <1>3, <1>4
<1> QED
  BY <1>5, <1>6

Ids == 0 .. IdSpace - 1

LEMMA PackedIds ==
    ASSUME NEW seg, seg.sub_segment \in Seq(Nat), NEW entries \in Nat, NEW base \in Int,
           NEW width
    PROVE  LET packed == PackedValues(seg, entries, base, width)
           IN  packed.value \in Seq(Ids) /\ packed.wild \in BOOLEAN
<1>1. /\ \A v : Right(v).value = v /\ Right(v).wild = FALSE
      /\ Wrong.value = <<>> /\ Wrong.wild = TRUE /\ <<>> \in Seq(Ids)
  BY DEF Right, Wrong
<1>2. CASE entries = 0
  BY <1>1, <1>2 DEF PackedValues
<1>3. CASE entries # 0 /\ seg.sub_segment = <<0>>
  <2>1. [k \in 1 .. entries |-> base % IdSpace] \in Seq(Ids)
    <3>1. base % IdSpace \in Ids
      BY ScaleAssumption DEF Ids
    <3> QED
      BY <3>1
  <2> QED
    BY <1>1, <1>3, <2>1 DEF PackedValues
<1>4. CASE entries # 0 /\ seg.sub_segment # <<0>>
  <2>1. width \in 1 .. WordBits - 1 =>
           ReadBitPacked(seg.sub_segment, width, base) \in Seq(Ids)
    BY UnpackedIds DEF Ids
  <2> QED
    BY <1>1, <1>4, <2>1 DEF PackedValues
<1> QED
  BY <1>2, <1>3, <1>4

\* What the loop over the runs has read.
RunsRead == [ids : Seq(Ids), offset : Nat, wild : BOOLEAN]

LEMMA TakeRunType ==
    ASSUME NEW values \in Seq(Ids), NEW acc \in RunsRead, NEW e \in Runs
    PROVE  TakeRun(values, acc, e) \in RunsRead
<1>1. /\ acc.ids \in Seq(Ids) /\ acc.offset \in Nat /\ acc.wild \in BOOLEAN
      /\ e.data_value \in Ids /\ e.repeat_value \in Nat
  BY DEF RunsRead, Runs, Ids
<1>2. CASE ~IsMarker(e, acc.offset)
  <2> DEFINE same == [k \in 1 .. e.repeat_value |-> e.data_value]
  <2>1. same \in Seq(Ids)
    BY <1>1
  <2> HIDE DEF same
  <2>2. acc.ids \o same \in Seq(Ids)
    BY <1>1, <2>1
  <2>3. TakeRun(values, acc, e) = [acc EXCEPT !.ids = acc.ids \o same]
    BY <1>2 DEF TakeRun, same
  <2> QED
    BY <2>2, <2>3 DEF RunsRead
<1>3. CASE IsMarker(e, acc.offset) /\ acc.offset + e.repeat_value > Len(values)
  BY <1>3 DEF TakeRun, RunsRead
<1>4. CASE IsMarker(e, acc.offset) /\ ~(acc.offset + e.repeat_value > Len(values))
  <2> DEFINE next == SubSeq(values, acc.offset + 1, acc.offset + e.repeat_value)
             end == acc.offset + e.repeat_value
  <2>1. next \in Seq(Ids)
    <3>1. Len(values) \in Nat /\ \A i \in 1 .. Len(values) : values[i] \in Ids
      OBVIOUS
    <3>2. acc.offset + 1 \in Nat /\ end \in Nat /\ end <= Len(values)
      BY <1>1, <1>4, <3>1
    <3> DEFINE a == acc.offset + 1
               b == acc.offset + e.repeat_value
    <3>3. a \in 1 .. Len(values) + 1 /\ b \in a - 1 .. Len(values)
      BY <1>1, <3>1, <3>2
    <3> HIDE DEF a, b
    <3>4. SubSeq(values, a, b) \in Seq(Ids)
      BY <3>3, SubSeqProperties
    <3> QED
      BY <3>4 DEF a, b
  <2>2. end \in Nat
    BY <1>1
  <2> HIDE DEF next, end
  <2>3. acc.ids \o next \in Seq(Ids)
    BY <1>1, <2>1
  <2>4. TakeRun(values, acc, e) = [acc EXCEPT !.ids = acc.ids \o next, !.offset = end]
    BY <1>4 DEF TakeRun, next, end
  <2> QED
    BY <2>2, <2>3, <2>4 DEF RunsRead
<1> QED
  BY <1>2, <1>3, <1>4

\* The loop over the runs takes one after the other.
TakeRuns(values, base, runs) ==
    FoldLeft(LAMBDA acc, e : TakeRun(values, acc, e), base, runs)

LEMMA RunsTrace ==
    ASSUME NEW values \in Seq(Ids), NEW base \in RunsRead, NEW runs \in Seq(Runs)
    PROVE  \E t \in [0 .. Len(runs) -> RunsRead] :
              /\ t[0] = base
              /\ \A k \in 1 .. Len(runs) : t[k] = TakeRun(values, t[k - 1], runs[k])
              /\ TakeRuns(values, base, runs) = t[Len(runs)]
<1> DEFINE n == Len(runs)
           Step1(acc, i) == TakeRun(values, acc, runs[i])
           F == [x \in RunsRead \X (1 .. n) |-> Step1(x[1], x[2])]
           Eq(f) == f = [s \in SUBSET (1 .. n) |->
                            IF s = {} THEN base
                            ELSE Step1(f[s \ {Max(s)}], Max(s))]
           iter == CHOOSE f : Eq(f)
<1>1. n \in Nat /\ DOMAIN runs = 1 .. n /\ \A i \in 1 .. n : runs[i] \in Runs
  OBVIOUS
<1>2. \A acc \in RunsRead : \A i \in 1 .. n : Step1(acc, i) \in RunsRead
  BY <1>1, TakeRunType
<1>3. TakeRuns(values, base, runs) = iter[1 .. n]
  BY <1>1 DEF TakeRuns, FoldLeft, MapThenFoldSet
<1> HIDE DEF n, Step1
<1>4. F \in [RunsRead \X (1 .. n) -> RunsRead]
  BY <1>2
<1>5. PICK g : IsFold(g, RunsRead, base, F, n)
  <2> HIDE DEF F
  <2> QED
    BY <1>1, <1>4, FoldExists
<1>6. ASSUME NEW s \in SUBSET (1 .. n), s # {}
      PROVE  Max(s) \in s /\ s \ {Max(s)} \in SUBSET (1 .. n)
             /\ (\A y \in s : y <= Max(s))
  <2>1. s \in SUBSET Nat /\ \A y \in s : y <= n
    BY <1>1
  <2> QED
    BY <1>1, <1>6, <2>1, NatMax
<1>7. ASSUME NEW s \in SUBSET (1 .. n)
      PROVE  g[s] \in RunsRead
             /\ g[s] = IF s = {} THEN base ELSE Step1(g[s \ {Max(s)}], Max(s))
  <2>1. CASE s = {}
    BY <1>5, <2>1 DEF IsFold
  <2>2. CASE s # {}
    <3>1. Max(s) \in 1 .. n /\ g[s \ {Max(s)}] \in RunsRead
      BY <1>5, <1>6, <2>2 DEF IsFold
    <3>2. F[<<g[s \ {Max(s)}], Max(s)>>] = Step1(g[s \ {Max(s)}], Max(s))
      BY <3>1
    <3> QED
      BY <1>5, <2>2, <3>2 DEF IsFold
  <2> QED
    BY <2>1, <2>2
<1>8. Eq(iter)
  <2>1. g \in [SUBSET (1 .. n) -> RunsRead]
    BY <1>5 DEF IsFold
  <2>2. Eq(g)
    BY <1>7, <2>1
  <2> QED
    BY <2>2
<1> HIDE DEF iter
<1>9. \A s \in SUBSET (1 .. n) :
         iter[s] = IF s = {} THEN base ELSE Step1(iter[s \ {Max(s)}], Max(s))
  BY <1>8
<1> HIDE DEF Eq
<1> DEFINE t == [k \in 0 .. n |-> iter[1 .. k]]
           T == {k \in Nat : k <= n => iter[1 .. k] \in RunsRead}
<1>10. 1 .. 0 = {} /\ iter[1 .. 0] = base
  <2>1. 1 .. 0 = {} /\ {} \in SUBSET (1 .. n)
    OBVIOUS
  <2> QED
    BY <1>9, <2>1
<1>11. ASSUME NEW k \in 1 .. n PROVE iter[1 .. k] = Step1(iter[1 .. k - 1], k)
  <2>1. Max(1 .. k) = k /\ (1 .. k) \ {k} = 1 .. k - 1
    BY <1>1, IntervalMax
  <2>2. 1 .. k \in SUBSET (1 .. n) /\ 1 .. k # {}
    <3>1. k \in 1 .. k /\ \A y \in 1 .. k : y \in 1 .. n
      BY <1>1
    <3> QED
      BY <3>1
  <2>3. iter[1 .. k] = Step1(iter[(1 .. k) \ {Max(1 .. k)}], Max(1 .. k))
    BY <1>9, <2>2
  <2> QED
    BY <2>1, <2>3
<1>12. 0 \in T
  BY <1>10
<1>13. ASSUME NEW k \in Nat, k \in T PROVE k + 1 \in T
  <2> SUFFICES ASSUME k + 1 <= n PROVE iter[1 .. k + 1] \in RunsRead
    OBVIOUS
  <2>1. k + 1 \in 1 .. n /\ (k + 1) - 1 = k
    BY <1>1
  <2>2. iter[1 .. k] \in RunsRead
    BY <1>1, <1>13, <2>1
  <2> QED
    BY <1>2, <1>11, <2>1, <2>2
<1> HIDE DEF T
<1>14. \A k \in Nat : k \in T
  BY <1>12, <1>13, NatStepwise
<1>15. t \in [0 .. n -> RunsRead]
  BY <1>1, <1>14 DEF T
<1>16. \A k \in 1 .. n : t[k] = Step1(t[k - 1], k)
  BY <1>1, <1>11
<1>17. t[0] = base /\ t[n] = iter[1 .. n]
  BY <1>1, <1>10
<1>18. \A k \in 1 .. n : t[k] = TakeRun(values, t[k - 1], runs[k])
  BY <1>16 DEF Step1
<1> HIDE DEF t, iter
<1>19. /\ t \in [0 .. Len(runs) -> RunsRead]
       /\ \A k \in 1 .. Len(runs) : t[k] = TakeRun(values, t[k - 1], runs[k])
       /\ t[0] = base /\ t[Len(runs)] = iter[1 .. n]
  BY <1>15, <1>17, <1>18 DEF n
<1> QED
  BY <1>3, <1>19

\* Whatever one of them may do.
LEMMA RunsFold ==
    ASSUME NEW values \in Seq(Ids), NEW base \in RunsRead, NEW runs \in Seq(Runs)
    PROVE  TakeRuns(values, base, runs) \in RunsRead
<1>1. Len(runs) \in 0 .. Len(runs)
  OBVIOUS
<1> QED
  BY <1>1, RunsTrace

\* Whatever the segments hold, what is unpacked are ids.
LEMMA UnpackedRows ==
    ASSUME NEW segments, IsSeq(segments),
           \A i \in DOMAIN segments : /\ segments[i].primary_segment \in Seq(Runs)
                                      /\ segments[i].sub_segment \in Seq(Nat),
           NEW entries \in Nat, NEW base \in Int, NEW width
    PROVE  ReadRLEBitPackedHybrid(segments, entries, base, width).value \in Seq(Ids)
<1>1. /\ \A v : Right(v).value = v /\ Wrong.value = <<>> /\ <<>> \in Seq(Ids)
  BY DEF Right, Wrong
<1>2. CASE segments = <<>>
  BY <1>1, <1>2 DEF ReadRLEBitPackedHybrid
<1>3. CASE segments # <<>>
  <2>1. 1 \in DOMAIN segments
    BY <1>3 DEF IsSeq
  <2> DEFINE packed == PackedValues(segments[1], entries, base, width)
             start == [ids |-> <<>>, offset |-> 0, wild |-> packed.wild]
             all == TakeRuns(packed.value, start, segments[1].primary_segment)
  <2>2. packed.value \in Seq(Ids) /\ packed.wild \in BOOLEAN
    BY <2>1, PackedIds
  <2>3. start \in RunsRead
    BY <1>1, <2>2 DEF RunsRead
  <2>4. ReadRLEBitPackedHybrid(segments, entries, base, width)
          = IF all.wild THEN Wrong ELSE Right(all.ids)
    BY <1>3 DEF ReadRLEBitPackedHybrid, TakeRuns
  <2> HIDE DEF start
  <2>5. all \in RunsRead
    <3> DEFINE values == packed.value
    <3>1. values \in Seq(Ids)
      BY <2>2
    <3> HIDE DEF values
    <3>2. TakeRuns(values, start, segments[1].primary_segment) \in RunsRead
      BY <2>1, <2>3, <3>1, RunsFold
    <3> QED
      BY <3>2 DEF values
  <2> HIDE DEF all
  <2>6. all.ids \in Seq(Ids)
    BY <2>5 DEF RunsRead
  <2> QED
    BY <1>1, <2>4, <2>6
<1> QED
  BY <1>2, <1>3

-----------------------------------------------------------------------------
(* Reading a column.                                                       *)

\* Every struct of a column's documents deletes what it assigns, and only the
\* pointer of a union can be read before it is set.
LEMMA ReadersSound ==
    ASSUME NEW c \in Columns, NEW l \in Readers(c)
    PROVE  SoundReader(l, Readers(c))
<1>1. WellFormedColumn(c)
  BY ColumnsAssumption
<1>2. IsSeq(c.idf) /\ \A i \in DOMAIN c.idf : IsSeq(c.idf[i].primary_segment)
  <2>1. \A S : \A s \in Seq(S) : IsSeq(s)
    BY DEF IsSeq, Range
  <2> QED
    BY <1>1, <2>1 DEF WellFormedColumn
<1>3. CASE l \in MetaReaders
  BY <1>3, MetaReadersSound DEF Readers
<1>4. CASE l \in IdfReaders(c.idf)
  BY <1>2, <1>4, IdfReadersSound DEF Readers
<1>5. CASE c.Dictionary /\ l \in DictionaryReaders(c.dictionary)
  <2>1. IsSeq(c.dictionary.pages) /\ IsSeq(c.dictionary.handles)
    BY <1>1, <1>5 DEF WellFormedColumn
  <2> QED
    BY <1>5, <2>1, DictionaryReadersSound DEF Readers
<1> QED
  BY <1>3, <1>4, <1>5 DEF Readers

LEMMA InitReaderInv == Init => ReaderInv
<1> SUFFICES ASSUME Init PROVE ReaderInv
  OBVIOUS
<1>1. stack = <<>> /\ heap = {} /\ parse = "idle" /\ column \in Columns /\ phase = "meta"
  BY DEF Init
<1>2. StackInv(Readers(column))
  BY <1>1 DEF StackInv
<1> QED
  BY <1>1, <1>2 DEF ReaderInv, LayoutInv, HeapInv

LEMMA NextReaderInv == ReaderInv /\ [Next]_vars => ReaderInv'
<1> SUFFICES ASSUME ReaderInv, [Next]_vars PROVE ReaderInv'
  OBVIOUS
<1>1. column \in Columns /\ column' = column
  BY DEF ReaderInv, Next, vars, OpenDocument, ReadDocument, ReadIdfMetadata, DecodeIndices,
         DecodeDictionary, ProcessRows, EndOfRows, Over
<1>2. phase' = "dictionary" => column.Dictionary
  BY DEF ReaderInv, Next, vars, OpenDocument, ReadDocument, ReadIdfMetadata, DecodeIndices,
         DecodeDictionary, ProcessRows, EndOfRows, Over
<1>3. PICK readers : readers = Readers(column)
  OBVIOUS
<1>4. readers = Readers(column)'
  BY <1>1, <1>3 DEF Readers
<1>5. LayoutInv(readers) /\ \A l \in readers : SoundReader(l, readers)
  BY <1>1, <1>3, ReadersSound DEF ReaderInv
<1>6. LayoutInv(readers)'
  <2>1. CASE OpenDocument
    <3>1. Construct(Document) /\ phase \in {"meta", "idf", "dictionary"}
      BY <2>1 DEF OpenDocument
    <3>2. Document \in readers
      BY <1>3, <3>1 DEF ReaderInv, Document, Readers, MetaReaders, IdfReaders, DictionaryReaders
    <3> QED
      BY <1>5, <3>1, <3>2, ConstructKeeps
  <2>2. CASE ReadDocument
    BY <1>5, <2>2, ReadStepKeeps DEF ReadDocument
  <2>3. CASE ReadIdfMetadata \/ DecodeIndices \/ DecodeDictionary
    BY <1>5, <2>3, ReleaseKeeps DEF ReadIdfMetadata, DecodeIndices, DecodeDictionary
  <2>4. CASE ProcessRows \/ EndOfRows \/ Over \/ UNCHANGED vars
    <3>1. UNCHANGED <<stack, heap, parse>>
      BY <2>4 DEF ProcessRows, EndOfRows, Over, vars, layoutVars
    <3> QED
      BY <1>5, <3>1 DEF LayoutInv, StackInv, HeapInv, BelongsTo
  <2> QED
    BY <2>1, <2>2, <2>3, <2>4 DEF Next
<1> QED
  BY <1>1, <1>2, <1>4, <1>6 DEF ReaderInv

\* What is allocated belongs to a constructor that runs, whatever the files
\* of the column say and wherever they end.
THEOREM ReaderInvariant == Spec => []ReaderInv
<1> QED
  BY InitReaderInv, NextReaderInv, PTL DEF Spec

\* Nothing is allocated between two documents and after a failure.
THEOREM LeavesNothingBehind == Spec => []NothingLeftBehind
<1>1. ReaderInv => NothingLeftBehind
  <2> SUFFICES ASSUME ReaderInv, parse \in {"idle", "failed"} PROVE heap = {}
    BY DEF NothingLeftBehind
  <2>1. stack = <<>> /\ HeapInv
    BY DEF ReaderInv, LayoutInv, StackInv
  <2>2. DOMAIN stack = {}
    BY <2>1
  <2> QED
    BY <2>1, <2>2 DEF HeapInv
<1> QED
  BY <1>1, ReaderInvariant, PTL

-----------------------------------------------------------------------------
(* The rows.                                                               *)

\* A chunk behind the rows handed out before.
LEMMA NextChunk ==
    ASSUME NEW S, NEW ids \in Seq(S), NEW from \in Nat, NEW count \in Nat,
           from + count <= Len(ids), NEW V, NEW values \in [S -> V]
    PROVE  [i \in 1 .. from |-> values[ids[i]]]
           \o [i \in 1 .. count |-> values[SubSeq(ids, from + 1, from + count)[i]]]
           = [i \in 1 .. from + count |-> values[ids[i]]]
<1> DEFINE chunk == SubSeq(ids, from + 1, from + count)
           first == [i \in 1 .. from |-> values[ids[i]]]
           second == [i \in 1 .. count |-> values[chunk[i]]]
           both == [i \in 1 .. from + count |-> values[ids[i]]]
<1>1. Len(ids) \in Nat /\ \A i \in 1 .. Len(ids) : ids[i] \in S
  OBVIOUS
<1>2. \A i \in 1 .. from + count : i \in 1 .. Len(ids)
  BY <1>1
<1>3. \A i \in 1 .. count : chunk[i] = ids[from + i]
  <2> DEFINE m == from + 1
             n == from + count
  <2>1. m \in Int /\ n \in Int /\ (\A i \in m .. n : ids[i] \in S)
        /\ n - m + 1 = count /\ \A i \in 1 .. count : m + i - 1 = from + i
    BY <1>1, <1>2
  <2> HIDE DEF m, n
  <2>2. \A i \in 1 .. n - m + 1 : SubSeq(ids, m, n)[i] = ids[m + i - 1]
    BY <2>1, SubSeqProperties
  <2> QED
    BY <2>1, <2>2 DEF m, n
<1> HIDE DEF chunk
<1>4. first \in Seq(V) /\ Len(first) = from
  <2>1. \A i \in 1 .. from : values[ids[i]] \in V
    BY <1>1, <1>2
  <2> QED
    BY <2>1
<1>5. second \in Seq(V) /\ Len(second) = count
  <2>1. \A i \in 1 .. count : from + i \in 1 .. from + count
    OBVIOUS
  <2>2. \A i \in 1 .. count : values[chunk[i]] \in V
    BY <1>1, <1>2, <1>3, <2>1
  <2> QED
    BY <2>2
<1>6. both \in Seq(V) /\ Len(both) = from + count
  <2>1. \A i \in 1 .. from + count : values[ids[i]] \in V
    BY <1>1, <1>2
  <2> QED
    BY <2>1
<1>7. /\ first \o second \in Seq(V) /\ Len(first \o second) = from + count
      /\ \A i \in 1 .. from + count :
            (first \o second)[i] = IF i <= from THEN first[i] ELSE second[i - from]
  <2> HIDE DEF first, second
  <2> QED
    BY <1>4, <1>5, ConcatProperties
<1>8. ASSUME NEW i \in 1 .. from + count PROVE (first \o second)[i] = both[i]
  <2>1. CASE i <= from
    <3>1. i \in 1 .. from
      BY <2>1
    <3> QED
      BY <1>7, <2>1, <3>1
  <2>2. CASE ~(i <= from)
    <3>1. i - from \in 1 .. count /\ from + (i - from) = i
      BY <2>2
    <3>2. second[i - from] = values[chunk[i - from]]
      BY <3>1
    <3>3. chunk[i - from] = ids[i]
      BY <1>3, <3>1
    <3> HIDE DEF first, second
    <3> QED
      BY <1>7, <2>2, <3>2, <3>3
  <2> QED
    BY <2>1, <2>2
<1>9. first \o second = both
  <2> HIDE DEF first, second, both
  <2> QED
    BY <1>6, <1>7, <1>8, SeqEqual
<1> QED
  BY <1>9 DEF chunk

\* Unwinding meets only the pointers that every struct's constructor leaves.
LEMMA NextUnionsOnly ==
    ASSUME ReaderInv, UnionsOnly, [Next]_vars
    PROVE  UnionsOnly'
<1>1. CASE parse = "wild"
  <2>1. stack' = stack /\ parse' = parse
    BY <1>1 DEF Next, vars, layoutVars, OpenDocument, ReadDocument, ReadIdfMetadata,
                DecodeIndices, DecodeDictionary, ProcessRows, EndOfRows, Over, Construct,
                Release, ReadStep, Reading, ReadValues, Throw, SetNone, NewVector,
                NewObject, Constructed, Unwind, WildDelete
  <2> QED
    BY <2>1 DEF UnionsOnly, Garbage, Top
<1>2. CASE parse # "wild" /\ parse' = "wild"
  <2>1. WildDelete
    BY <1>2 DEF Next, vars, layoutVars, OpenDocument, ReadDocument, ReadIdfMetadata,
                DecodeIndices, DecodeDictionary, ProcessRows, EndOfRows, Over, Construct,
                Release, ReadStep, ReadValues, Throw, SetNone, NewVector,
                NewObject, Constructed, Unwind
  <2>2. stack # <<>> /\ \E readers : StackInv(readers)
    BY <2>1 DEF WildDelete, ReaderInv, LayoutInv, StackInv
  <2>3. Top.frees \ Top.nulled \subseteq Unions
    BY <2>2, TopFrame DEF SoundFrame
  <2>4. Garbage(Top) # {} /\ Garbage(Top) \subseteq Unions
    BY <2>1, <2>3 DEF WildDelete, Garbage
  <2>5. Garbage(Top)' = Garbage(Top)
    BY <2>1 DEF WildDelete, Garbage, Top
  <2> QED
    BY <2>4, <2>5 DEF UnionsOnly
<1>3. CASE parse' # "wild"
  BY <1>3 DEF UnionsOnly
<1> QED
  BY <1>1, <1>2, <1>3

LEMMA InitColumnInv == Init => ColumnInv
<1> SUFFICES ASSUME Init PROVE ColumnInv
  OBVIOUS
<1>1. ReaderInv
  BY InitReaderInv
<1>2. /\ row = 0 /\ output = <<>> /\ indices = <<>> /\ phase = "meta" /\ column \in Columns
      /\ meta = [min_data_id |-> 0, count_bit_packed |-> 0, bit_width |-> 0]
      /\ stack = <<>> /\ parse = "idle"
  BY DEF Init
<1>3. TypeOK
  <2>1. 0 \in 0 .. IdSpace - 1
    BY ScaleAssumption
  <2> QED
    BY <1>2, <2>1 DEF TypeOK
<1>4. RowsInOrder
  BY <1>2 DEF RowsInOrder, IsSeq
<1>5. UnionsOnly
  BY <1>2 DEF UnionsOnly
<1> QED
  BY <1>1, <1>3, <1>4, <1>5 DEF ColumnInv

\* The ids unpacked from the files of a column.
LEMMA DecodedIndices ==
    ASSUME ColumnInv, DecodeIndices
    PROVE  indices' \in Seq(Ids)
<1>1. column \in Columns /\ meta.count_bit_packed \in Nat /\ meta.min_data_id \in Ids
  BY DEF ColumnInv, TypeOK, Ids
<1>2. /\ IsSeq(column.idf)
      /\ \A i \in DOMAIN column.idf : /\ column.idf[i].primary_segment \in Seq(Runs)
                                      /\ column.idf[i].sub_segment \in Seq(Nat)
  BY <1>1, ColumnsAssumption DEF WellFormedColumn
<1>3. PackedBase \in Int
  BY <1>1 DEF PackedBase, NullAdjustment, Ids
<1>4. indices' = ReadRLEBitPackedHybrid(column.idf, meta.count_bit_packed,
                                        PackedBase, meta.bit_width).value
  BY DEF DecodeIndices
<1> HIDE DEF PackedBase
<1> QED
  BY <1>1, <1>2, <1>3, <1>4, UnpackedRows

\* The rows handed out stay the first ones, in order.
LEMMA NextRowsInOrder ==
    ASSUME ColumnInv, [Next]_vars, IsSeq(indices')
    PROVE  RowsInOrder' /\ Len(output') = row'
<1>1. /\ row \in Nat /\ IsSeq(indices)
      /\ output = [i \in 1 .. row |-> RowValue(indices[i])]
      /\ phase \in {"meta", "idf", "dictionary"} => row = 0
      /\ row <= Len(indices) /\ Len(output) = row
  BY DEF ColumnInv, RowsInOrder, TypeOK
<1>2. CASE UNCHANGED <<column, meta, indices, dictionary, row, output>>
           /\ (phase' \in {"meta", "idf", "dictionary"} => phase' = phase)
  <2>1. \A i \in 1 .. row : RowValue(indices[i])' = RowValue(indices[i])
    <3> SUFFICES ASSUME NEW i \in 1 .. row PROVE RowValue(indices[i])' = RowValue(indices[i])
      OBVIOUS
    <3>1. indices'[i] = indices[i]
      BY <1>2
    <3> QED
      BY <1>2, <3>1 DEF RowValue, Lookup, DirectValue, Truncated
  <2>2. [i \in 1 .. row |-> RowValue(indices[i])]
         = [i \in 1 .. row |-> RowValue(indices[i])']
    BY <2>1
  <2> QED
    BY <1>1, <1>2, <2>2 DEF RowsInOrder
<1>3. CASE ReadIdfMetadata \/ DecodeIndices \/ DecodeDictionary
  <2>1. row' = 0 /\ row = 0 /\ output' = output
    BY <1>1, <1>3 DEF ReadIdfMetadata, DecodeIndices, DecodeDictionary
  <2>2. output = <<>> /\ [i \in 1 .. 0 |-> RowValue(indices[i])'] = <<>>
    BY <1>1, <2>1
  <2> QED
    BY <1>1, <2>1, <2>2 DEF RowsInOrder
<1>4. CASE ProcessRows /\ ~UNCHANGED row
  <2>1. /\ phase = "rows" /\ row < Len(indices) /\ phase' = "rows"
        /\ output' = output \o [i \in 1 .. RowCount |-> RowValue(ChunkIds[i])]
        /\ row' = row + RowCount
        /\ UNCHANGED <<column, meta, indices, dictionary>>
    BY <1>4 DEF ProcessRows
  <2> DEFINE S == Range(indices)
             values == [id \in S |-> RowValue(id)]
             count == RowCount
  <2>2. Len(indices) \in Nat /\ indices \in Seq(S) /\ \A i \in 1 .. Len(indices) : indices[i] \in S
    BY <1>1 DEF IsSeq
  <2>3. count \in Nat /\ row + count <= Len(indices)
    BY <1>1, <2>1, <2>2, ChunkAssumption DEF RowCount
  <2>4. ChunkIds = SubSeq(indices, row + 1, row + count)
    BY DEF ChunkIds
  <2> HIDE DEF count
  <2>5. \A i \in 1 .. row + count : i \in 1 .. Len(indices)
    BY <1>1, <2>2, <2>3
  <2>6. output = [i \in 1 .. row |-> values[indices[i]]]
    <3>1. \A i \in 1 .. row : RowValue(indices[i]) = values[indices[i]]
      BY <1>1, <2>2, <2>3, <2>5
    <3> QED
      BY <1>1, <3>1
  <2>7. \A i \in 1 .. count : SubSeq(indices, row + 1, row + count)[i] \in S
    <3> DEFINE m == row + 1
               n == row + count
    <3>1. m \in Int /\ n \in Int /\ (\A i \in m .. n : indices[i] \in S)
          /\ n - m + 1 = count
          /\ \A i \in 1 .. count : m + i - 1 \in 1 .. Len(indices)
      BY <1>1, <2>2, <2>3
    <3> HIDE DEF m, n, S
    <3>2. \A i \in 1 .. n - m + 1 : SubSeq(indices, m, n)[i] = indices[m + i - 1]
      BY <3>1, SubSeqProperties
    <3> QED
      BY <2>2, <3>1, <3>2 DEF m, n
  <2>8. [i \in 1 .. count |-> RowValue(ChunkIds[i])]
          = [i \in 1 .. count |-> values[SubSeq(indices, row + 1, row + count)[i]]]
    <3>1. \A i \in 1 .. count : RowValue(ChunkIds[i])
                                = values[SubSeq(indices, row + 1, row + count)[i]]
      BY <2>4, <2>7
    <3> QED
      BY <3>1
  <2>9. \A i \in 1 .. row + count : values[indices[i]] = RowValue(indices[i])'
    <3> SUFFICES ASSUME NEW i \in 1 .. row + count
                 PROVE  values[indices[i]] = RowValue(indices[i])'
      OBVIOUS
    <3>1. indices'[i] = indices[i] /\ indices[i] \in S
      BY <2>1, <2>2, <2>5
    <3>2. RowValue(indices[i])' = RowValue(indices[i])
      BY <2>1, <3>1 DEF RowValue, Lookup, DirectValue, Truncated
    <3> QED
      BY <3>1, <3>2
  <2>10. PICK V : values \in [S -> V]
    <3>1. values \in [S -> {RowValue(id) : id \in S}]
      OBVIOUS
    <3> QED
      BY <3>1
  <2> HIDE DEF values, S
  <2>11. output' = [i \in 1 .. row + count |-> values[indices[i]]]
    <3>1. output' = [i \in 1 .. row |-> values[indices[i]]]
                    \o [i \in 1 .. count |->
                          values[SubSeq(indices, row + 1, row + count)[i]]]
      BY <2>1, <2>6, <2>8 DEF count
    <3> QED
      BY <1>1, <2>2, <2>3, <2>10, <3>1, NextChunk
  <2>12. output' = [i \in 1 .. row' |-> RowValue(indices[i])']
    BY <2>1, <2>9, <2>11 DEF count
  <2>13. row' \in Nat /\ row' = row + count
    BY <1>1, <2>1, <2>3 DEF count
  <2>14. Len(output') = row'
    BY <2>12, <2>13
  <2> QED
    BY <1>1, <2>1, <2>12, <2>13, <2>14 DEF RowsInOrder
<1> QED
  <2>1. CASE OpenDocument
    BY <1>2, <2>1 DEF OpenDocument, decoderVars
  <2>2. CASE ReadDocument
    BY <1>2, <2>2 DEF ReadDocument, decoderVars
  <2>3. CASE ProcessRows /\ UNCHANGED row
    <3>1. \/ phase' = "failed" /\ UNCHANGED <<row, output>>
          \/ row' = row + RowCount
      BY <2>3 DEF ProcessRows
    <3>2. row + RowCount # row
      BY <1>1, <2>3, ChunkAssumption DEF ProcessRows, RowCount, IsSeq
    <3> QED
      BY <1>2, <2>3, <3>1, <3>2 DEF ProcessRows
  <2>4. CASE EndOfRows
    BY <1>2, <2>4 DEF EndOfRows, decoderVars
  <2>5. CASE Over \/ UNCHANGED vars
    BY <1>2, <2>5 DEF Over, vars, decoderVars
  <2> QED
    BY <1>3, <1>4, <2>1, <2>2, <2>3, <2>4, <2>5 DEF Next

LEMMA NextColumnInv == ColumnInv /\ [Next]_vars => ColumnInv'
<1> SUFFICES ASSUME ColumnInv, [Next]_vars PROVE ColumnInv'
  OBVIOUS
<1>1. ReaderInv'
  BY NextReaderInv DEF ColumnInv
<1>2. TypeOK /\ row \in Nat /\ IsSeq(indices)
      /\ (phase \in {"meta", "idf", "dictionary"} => row = 0)
  BY DEF ColumnInv, RowsInOrder
<1>3. IsSeq(indices') /\ \A i \in DOMAIN indices' : indices'[i] \in 0 .. IdSpace - 1
  <2>1. CASE DecodeIndices
    <3>1. indices' \in Seq(Ids)
      BY <2>1, DecodedIndices
    <3>2. \A S : \A s \in Seq(S) : IsSeq(s)
      BY DEF IsSeq, Range
    <3>3. IsSeq(indices') /\ \A i \in DOMAIN indices' : indices'[i] \in Ids
      BY <3>1, <3>2
    <3> QED
      BY <3>3 DEF Ids
  <2>2. CASE ~DecodeIndices
    <3>1. indices' = indices
      BY <2>2 DEF Next, vars, decoderVars, OpenDocument, ReadDocument, ReadIdfMetadata,
                  DecodeDictionary, ProcessRows, EndOfRows, Over
    <3> QED
      BY <1>2, <3>1 DEF TypeOK
  <2> QED
    BY <2>1, <2>2
<1>4. RowsInOrder' /\ Len(output') = row'
  BY <1>3, NextRowsInOrder
<1>5. column' \in Columns /\ column' = column
  BY <1>2 DEF TypeOK, Next, vars, decoderVars, OpenDocument, ReadDocument, ReadIdfMetadata,
              DecodeIndices, DecodeDictionary, ProcessRows, EndOfRows, Over
<1>6. phase' \in {"meta", "idf", "dictionary", "rows", "done", "failed", "wild"}
  BY <1>2 DEF TypeOK, Next, vars, decoderVars, OpenDocument, ReadDocument, ReadIdfMetadata,
              DecodeIndices, DecodeDictionary, ProcessRows, EndOfRows, Over
<1>7. meta'.min_data_id \in 0 .. IdSpace - 1 /\ meta'.count_bit_packed \in Nat
  <2>1. CASE ReadIdfMetadata
    <3>1. WellFormedColumn(column)
      BY <1>2, ColumnsAssumption DEF TypeOK
    <3> QED
      BY <2>1, <3>1 DEF ReadIdfMetadata, WellFormedColumn
  <2>2. CASE ~ReadIdfMetadata
    <3>1. meta' = meta
      BY <2>2 DEF Next, vars, decoderVars, OpenDocument, ReadDocument, DecodeIndices,
                  DecodeDictionary, ProcessRows, EndOfRows, Over
    <3> QED
      BY <1>2, <3>1 DEF TypeOK
  <2> QED
    BY <2>1, <2>2
<1>8. row' <= Len(indices')
  <2>1. CASE ProcessRows
    BY <1>2, <2>1, ChunkAssumption DEF TypeOK, ProcessRows, RowCount, IsSeq
  <2>2. CASE DecodeIndices
    BY <1>2, <1>3, <2>2 DEF DecodeIndices, IsSeq
  <2>3. CASE ~ProcessRows /\ ~DecodeIndices
    <3>1. indices' = indices /\ row' = row
      BY <2>3 DEF Next, vars, decoderVars, OpenDocument, ReadDocument, ReadIdfMetadata,
                  DecodeDictionary, EndOfRows, Over
    <3> QED
      BY <1>2, <3>1 DEF TypeOK
  <2> QED
    BY <2>1, <2>2, <2>3
<1>9. phase' = "done" => row' = Len(indices')
  BY <1>2 DEF TypeOK, Next, vars, decoderVars, OpenDocument, ReadDocument, ReadIdfMetadata,
              DecodeIndices, DecodeDictionary, ProcessRows, EndOfRows, Over
<1>10. /\ parse' \in {"idle", "reading", "unwinding", "built", "failed", "wild"}
       /\ (stack' = <<>>) <=> (parse' \in {"idle", "failed"})
  BY <1>1 DEF ReaderInv, LayoutInv, StackInv
<1>11. UnionsOnly'
  BY NextUnionsOnly DEF ColumnInv
<1> QED
  BY <1>1, <1>3, <1>4, <1>5, <1>6, <1>7, <1>8, <1>9, <1>10, <1>11 DEF ColumnInv, TypeOK

\* Every row handed out is the value of its id, in order and none twice, and
\* the ids fit in a word: whatever the files say, whatever the chunks' size.
THEOREM ColumnInvariant == Spec => []ColumnInv
<1> QED
  BY InitColumnInv, NextColumnInv, PTL DEF Spec

\* Unwinding follows a pointer that nothing set only for a union that was not
\* reached yet, whatever the file was and wherever it ended.
THEOREM FollowsOnlyUnions == Spec => []UnionsOnly
<1>1. ColumnInv => UnionsOnly
  BY DEF ColumnInv
<1> QED
  BY <1>1, ColumnInvariant, PTL

=============================================================================
