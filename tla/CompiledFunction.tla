--------------------------- MODULE CompiledFunction -------------------------
(***************************************************************************)
(* A function whose source the compiler took, run: its operations on a      *)
(* memory in which using what is gone shows.                               *)
(*                                                                         *)
(*   program   the function      stage   how far it got                     *)
(*   todo      the blocks under way, the innermost first                    *)
(*   regs      the values by id  slots   the content of the slots           *)
(*   heap      the blocks ever allocated, each with its content; lent those  *)
(*             of the caller that parameters point to                       *)
(*   result    the value returned                                          *)
(*   fault     what went wrong in the run, which then stops                 *)
(***************************************************************************)
EXTENDS TypedExprs

CONSTANTS
  Programs,       \* the functions: the names of the parameters and the body
  Compiled,       \* what the compiler makes of each (Compiler, Compile)
  ParamType,      \* the type of each parameter name
  MaxTurns        \* the iterations a loop makes at most

VARIABLES program, stage, todo, regs, slots, heap, lent, result, fault
memory  == <<slots, heap>>
machine == <<todo, regs, memory, lent, result, fault>>
vars    == <<program, stage, machine>>

-----------------------------------------------------------------------------
\* The memory, from how the runtime that the lowered operations call behaves:
\* slots and heap blocks hold trees of the parts of a value; a part that was
\* moved out or dropped is gone, a block that was released is freed, and both
\* show when they are used.  An address is a slot, a block or a value at hand,
\* and a path into it.
Gone            == [is |-> "gone"]
Freed           == [is |-> "freed"]
Number          == [is |-> "int"]
BoxAt(b)        == [is |-> "box", at |-> b]
BufferAt(b)     == [is |-> "buffer", at |-> b]
Pointing(m, a)  == [is |-> "ref", mut |-> m, to |-> a]
OfFields(F)     == [is |-> "record", of |-> F]
OfVariant(v, t) == [is |-> "enum", variant |-> v, of |-> t]
Missing(t)      == t.is \in {"gone", "freed"}

NoSlot     == ""
Nowhere    == [slot |-> NoSlot, block |-> 0, value |-> 0, path |-> <<>>]
InSlot(x)  == [Nowhere EXCEPT !.slot = x]
InBlock(b) == [Nowhere EXCEPT !.block = b]
InValue(r) == [Nowhere EXCEPT !.value = r]
Into(a, s) == [a EXCEPT !.path = Append(@, s)]

-----------------------------------------------------------------------------
\* One step into a part, and another tree in place of the part a path leads to.
Part(t, s) == CASE t.is = "record" /\ s \in DOMAIN t.of -> t.of[s]
                [] t.is = "enum" /\ t.variant = s       -> t.of
                [] t = Freed                            -> Freed
                [] OTHER                                -> Gone
RECURSIVE Replaced(_, _, _)
Replaced(t, path, new) ==
  CASE path = <<>>     -> new
    [] t.is = "record" -> [t EXCEPT !.of[Head(path)] = Replaced(@, Tail(path), new)]
    [] t.is = "enum"   -> [t EXCEPT !.of = Replaced(@, Tail(path), new)]

\* The blocks a value owns, and those it would be freed through.
RECURSIVE Owns(_, _)
Owns(t, h) ==
  CASE t.is = "box"    -> {t.at} \cup Owns(h[t.at], h)
    [] t.is = "buffer" -> {t.at}
    [] t.is = "record" -> UNION {Owns(t.of[f], h) : f \in DOMAIN t.of}
    [] t.is = "enum"   -> Owns(t.of, h)
    [] OTHER           -> {}

\* Nothing of the value is missing.
RECURSIVE Intact(_, _)
Intact(t, h) ==
  CASE Missing(t)      -> FALSE
    [] t.is = "box"    -> Intact(h[t.at], h)
    [] t.is = "buffer" -> h[t.at] # Freed
    [] t.is = "record" -> \A f \in DOMAIN t.of : Intact(t.of[f], h)
    [] t.is = "enum"   -> Intact(t.of, h)
    [] OTHER           -> TRUE

\* The references a value carries.
RECURSIVE References(_, _)
References(t, h) ==
  CASE t.is = "ref"    -> {t}
    [] t.is = "box"    -> References(h[t.at], h)
    [] t.is = "record" -> UNION {References(t.of[f], h) : f \in DOMAIN t.of}
    [] t.is = "enum"   -> References(t.of, h)
    [] OTHER           -> {}

\* Freeing a block, and dropping a value, in a memory [heap, fault].
FreedTwice == "freed twice"
UsedAfter  == "used after it was gone"
Aliased    == "aliased"
FreeBlock(m, b) == IF m.heap[b] = Freed THEN [m EXCEPT !.fault = FreedTwice]
                   ELSE [m EXCEPT !.heap[b] = Freed]
RECURSIVE Release(_, _)
Release(m, t) ==
  CASE t = Gone        -> [m EXCEPT !.fault = FreedTwice]
    [] t = Freed       -> [m EXCEPT !.fault = UsedAfter]
    [] t.is = "box"    -> IF m.heap[t.at] = Freed THEN FreeBlock(m, t.at)
                          ELSE FreeBlock(Release(m, m.heap[t.at]), t.at)
    [] t.is = "buffer" -> FreeBlock(m, t.at)
    [] t.is = "record" -> FoldLeft(LAMBDA n, f : Release(n, t.of[f]), m, SetToSeq(DOMAIN t.of))
    [] t.is = "enum"   -> Release(m, t.of)
    [] OTHER           -> m

-----------------------------------------------------------------------------
\* The values of a type made of new blocks, each with the memory [heap, lent]
\* it is in; what a reference points to is a block lent by the caller.
Blank(h) == [tree |-> Number, heap |-> h, lent |-> {}]
InNewBlock(m) == [m EXCEPT !.heap = Append(@, m.tree)]

RECURSIVE Made(_, _)
MadeRecord(T, m) ==
  LET With(set, f) ==
        UNION {{[n EXCEPT !.tree = OfFields((f :> n.tree) @@ k.tree.of)] : n \in Made(T.of[f], k)} :
                 k \in set}
  IN  FoldLeft(With, {[m EXCEPT !.tree = OfFields(<<>>)]}, SetToSeq(DOMAIN T.of))
Made(T, m) ==
  CASE T.is = "int"    -> {[m EXCEPT !.tree = Number]}
    [] T.is = "buffer" -> {[InNewBlock([m EXCEPT !.tree = Number])
                            EXCEPT !.tree = BufferAt(Len(m.heap) + 1)]}
    [] T.is = "box"    -> {[InNewBlock(n) EXCEPT !.tree = BoxAt(Len(n.heap) + 1)] : n \in Made(T.of, m)}
    [] T.is = "ref"    -> {[InNewBlock(n) EXCEPT !.tree = Pointing(T.mut, InBlock(Len(n.heap) + 1)),
                                                 !.lent = @ \cup {Len(n.heap) + 1}] :
                             n \in Made(T.of, m)}
    [] T.is = "record" -> MadeRecord(T, m)
    [] T.is = "enum"   -> UNION {{[n EXCEPT !.tree = OfVariant(v, n.tree)] : n \in Made(T.of[v], m)} :
                                   v \in DOMAIN T.of}

-----------------------------------------------------------------------------
\* What is at an address, in the memory h.
Root(a, h) == CASE a.slot # NoSlot -> IF a.slot \in DOMAIN slots THEN slots[a.slot] ELSE Gone
                [] a.block # 0     -> h[a.block]
                [] OTHER           -> regs[a.value]
ContentIn(a, h) == FoldLeft(Part, Root(a, h), a.path)
Content(a)      == ContentIn(a, heap)

Init == /\ program \in Programs
        /\ stage = "source"
        /\ todo = <<>> /\ regs = <<>> /\ slots = <<>> /\ heap = <<>> /\ lent = {}
        /\ result = Number /\ fault = "none"

-----------------------------------------------------------------------------
\* The compiler takes the function, or says at which stage it does not.
CompileFunction ==
  /\ stage = "source"
  /\ stage' = Compiled[program].outcome
  /\ todo'  = IF stage' = "verified" THEN <<[kind |-> "function", ops |-> Compiled[program].ops]>> ELSE <<>>
  /\ UNCHANGED <<program, regs, memory, lent, result, fault>>

\* The caller hands over the arguments.
CallFunction ==
  /\ stage = "verified" /\ stage' = "running"
  /\ \E m \in Made(Rec([x \in Range(program.params) |-> ParamType[x]]), Blank(heap)) :
       /\ slots' = m.tree.of
       /\ heap'  = m.heap
       /\ lent'  = m.lent
  /\ UNCHANGED <<program, todo, regs, result, fault>>

-----------------------------------------------------------------------------
\* The operation at hand.
op == Head(Head(todo).ops)
At(kind) ==
  /\ stage = "running" /\ fault = "none"
  /\ Head(todo).ops # <<>> /\ op.op = kind
  /\ UNCHANGED <<program, lent>>
Past == <<[Head(todo) EXCEPT !.ops = Tail(@)]>> \o Tail(todo)
Goes == todo' = Past /\ UNCHANGED <<stage, result>>

Gives(v)    == regs' = (op.id :> v) @@ regs
Fails(what) == fault' = what /\ UNCHANGED <<regs, memory>>
Yields(v)   == Goes /\ Gives(v) /\ UNCHANGED <<memory, fault>>

\* An address is the value of a reference, or the content of a box just made.
Target(r) == IF regs[r].is = "box" THEN InBlock(regs[r].at) ELSE regs[r].to

\* The memory h with other content at an address; a block that was freed
\* cannot take any.
Reachable(a, h) == \/ a.path = <<>> /\ (a.block # 0 => h[a.block] # Freed)
                   \/ a.path # <<>> /\ ~Missing(ContentIn([a EXCEPT !.path = Front(@)], h))
Put(a, t, h) ==
  LET new == Replaced(Root(a, h), a.path, t)
  IN  /\ slots' = IF a.slot # NoSlot THEN (a.slot :> new) @@ slots ELSE slots
      /\ heap'  = IF a.block # 0 THEN [h EXCEPT ![a.block] = new] ELSE h

RunAddrOf  == At("addr_of") /\ Yields(Pointing(TRUE, InSlot(op.root)))
RunPayload == At("addr_of_payload") /\ Yields(Pointing(TRUE, Into(InValue(op.base), op.variant)))
RunConst   == At("const") /\ Yields(Number)
RunBorrow  == At("borrow") /\ Yields(Pointing(op.mut, Target(op.address)))
RunEnum    == At("enum") /\ Yields(OfVariant(op.variant, regs[op.value]))
RunRecord  ==
  /\ At("record")
  /\ LET Value(f) == regs[op.values[CHOOSE i \in DOMAIN op.names : op.names[i] = f]]
     IN  Yields(OfFields([f \in Range(op.names) |-> Value(f)]))

\* A dynamic index may be that of any element.
RunAddrOfField ==
  /\ At("addr_of_field")
  /\ LET a == Target(op.base)
     IN  IF op.field # AnyIndex THEN Yields(Pointing(TRUE, Into(a, op.field)))
         ELSE IF Missing(Content(a)) THEN Goes /\ Fails(UsedAfter)
         ELSE \E f \in DOMAIN Content(a).of : Yields(Pointing(TRUE, Into(a, f)))

\* Through the box or the reference an address holds.
RunDeref ==
  /\ At("deref")
  /\ LET t == Content(Target(op.address))
     IN  CASE Missing(t)    -> Goes /\ Fails(UsedAfter)
           [] t.is = "box"  -> Yields(Pointing(TRUE, InBlock(t.at)))
           [] t.is = "ref"  -> Yields(t)

RunLoad ==
  /\ At("load")
  /\ LET t == Content(Target(op.address))
     IN  IF Missing(t) THEN Goes /\ Fails(UsedAfter) ELSE Yields(t)

RunLen ==
  /\ At("len")
  /\ IF Missing(Content(Target(op.address))) THEN Goes /\ Fails(UsedAfter) ELSE Yields(Number)

RunMove ==
  /\ At("move") /\ Goes
  /\ LET a == Target(op.address)
     IN  IF Missing(Content(a)) THEN Fails(UsedAfter)
         ELSE Gives(Content(a)) /\ Put(a, Gone, heap) /\ UNCHANGED fault

RunStore ==
  /\ At("store") /\ Goes
  /\ LET a == Target(op.address)
     IN  IF ~Reachable(a, heap) THEN Fails(UsedAfter)
         ELSE Put(a, regs[op.value], heap) /\ UNCHANGED <<regs, fault>>

\* What was dropped is gone from where it was; a payload is a part of a value.
RunDrop ==
  /\ At("drop") /\ Goes
  /\ LET a == Target(op.address)
         m == Release([heap |-> heap, fault |-> "none"], Content(a))
     IN  IF m.fault # "none" THEN Fails(m.fault)
         ELSE Put(a, Gone, m.heap) /\ UNCHANGED <<regs, fault>>

\* The block of a box whose content was moved out or dropped part by part.
RunFreeBoxShell ==
  /\ At("free_box_shell") /\ Goes
  /\ LET a == Target(op.address)
     IN  IF Missing(Content(a)) \/ heap[Content(a).at] = Freed THEN Fails(FreedTwice)
         ELSE Put(a, Gone, [heap EXCEPT ![Content(a).at] = Freed]) /\ UNCHANGED <<regs, fault>>

RunHeapAlloc ==
  /\ At("heap_alloc") /\ Goes
  /\ heap' = Append(heap, Gone) /\ Gives(BoxAt(Len(heap) + 1))
  /\ UNCHANGED <<slots, fault>>

RunUnbox ==
  /\ At("unbox") /\ Goes
  /\ LET b == regs[op.values[1]].at
     IN  IF Missing(heap[b]) THEN Fails(UsedAfter)
         ELSE Gives(heap[b]) /\ heap' = [heap EXCEPT ![b] = Freed] /\ UNCHANGED <<slots, fault>>

RunBufferNew ==
  /\ At("buffer_new") /\ Goes
  /\ heap' = Append(heap, Number) /\ Gives(BufferAt(Len(heap) + 1))
  /\ UNCHANGED <<slots, fault>>

\* A buffer keeps the block it was given: a push that does not fit traps,
\* which ends the process.
RunPush ==
  /\ At("push")
  /\ IF Missing(Content(Target(op.address))) \/ heap[Content(Target(op.address)).at] = Freed
     THEN Goes /\ Fails(UsedAfter)
     ELSE \/ Yields(Number)
          \/ /\ stage' = "trapped" /\ todo' = <<>>
             /\ UNCHANGED <<regs, memory, result, fault>>

-----------------------------------------------------------------------------
\* A call: two of its arguments may not lead to the same place unless both
\* only read it, what it is given it drops, and what it was lent must be there
\* until it returns.
Same(a, b) ==
  \/ a.slot = b.slot /\ a.block = b.block /\ (IsPrefix(a.path, b.path) \/ IsPrefix(b.path, a.path))
  \/ a.block \in Owns(Content(b), heap)
  \/ b.block \in Owns(Content(a), heap)
ArgumentsAliased ==
  \E i, j \in DOMAIN op.values : i < j /\
    \E r \in References(regs[op.values[i]], heap), q \in References(regs[op.values[j]], heap) :
      (r.mut \/ q.mut) /\ Same(r.to, q.to)
Lent == UNION {References(regs[op.values[i]], heap) : i \in DOMAIN op.values}

RunCall ==
  /\ At("call") /\ Goes
  /\ LET args == [i \in DOMAIN op.values |-> regs[op.values[i]]]
         m    == FoldLeft(Release, [heap |-> heap, fault |-> "none"], args)
     IN  CASE \E r \in Lent : ~Intact(Content(r.to), heap) -> Fails(UsedAfter)
           [] ArgumentsAliased                             -> Fails(Aliased)
           [] m.fault # "none"                             -> Fails(m.fault)
           [] \E r \in Lent : ~Intact(ContentIn(r.to, m.heap), m.heap) -> Fails(UsedAfter)
           [] op.type.is = "ref" -> /\ \E r \in Lent : Gives(Pointing(op.type.mut, r.to))
                                    /\ heap' = m.heap /\ UNCHANGED <<slots, fault>>
           [] OTHER -> /\ \E n \in Made(op.type, Blank(m.heap)) : Gives(n.tree) /\ heap' = n.heap
                       /\ UNCHANGED <<slots, fault>>

-----------------------------------------------------------------------------
\* Blocks: one of a conditional gives its value to the conditional.
Branch(b) == [kind |-> "branch", ops |-> b.ops, value |-> b.value, id |-> op.id]
RunIf ==
  /\ At("if")
  /\ \E i \in DOMAIN op.blocks : todo' = <<Branch(op.blocks[i])>> \o Past
  /\ UNCHANGED <<stage, regs, memory, result, fault>>
RunCase ==
  /\ At("case")
  /\ \E i \in DOMAIN op.blocks : /\ op.blocks[i].variant = regs[op.on].variant
                                 /\ todo' = <<Branch(op.blocks[i])>> \o Past
  /\ UNCHANGED <<stage, regs, memory, result, fault>>

\* A loop looks at its condition before every iteration, and ends with the
\* accumulator.
Turn(o, n, part) == [kind |-> part, loop |-> o, turns |-> n,
                     ops |-> IF part = "cond" THEN o.cond.ops ELSE o.body.ops]
RunLoop ==
  /\ At("loop")
  /\ todo' = <<Turn(op, 0, "cond")>> \o Past
  /\ slots' = (op.acc :> regs[op.init]) @@ slots
  /\ UNCHANGED <<stage, regs, heap, result, fault>>

Ended(kind) == /\ stage = "running" /\ fault = "none"
               /\ Head(todo).ops = <<>> /\ Head(todo).kind = kind
               /\ UNCHANGED <<program, stage, lent, result, fault>>
EndBranch ==
  /\ Ended("branch") /\ todo' = Tail(todo)
  /\ regs' = (Head(todo).id :> regs[Head(todo).value]) @@ regs
  /\ UNCHANGED memory
EndCondition ==
  /\ Ended("cond")
  /\ LET o == Head(todo).loop
     IN  \/ /\ Head(todo).turns < MaxTurns
            /\ todo' = <<Turn(o, Head(todo).turns, "turn")>> \o Tail(todo)
            /\ UNCHANGED <<regs, memory>>
         \/ /\ todo' = Tail(todo)
            /\ regs' = (o.id :> slots[o.acc]) @@ regs
            /\ slots' = [slots EXCEPT ![o.acc] = Gone]
            /\ UNCHANGED heap
EndTurn ==
  /\ Ended("turn")
  /\ LET o == Head(todo).loop
     IN  /\ todo' = <<Turn(o, Head(todo).turns + 1, "cond")>> \o Tail(todo)
         /\ slots' = [slots EXCEPT ![o.acc] = regs[o.body.value]]
  /\ UNCHANGED <<regs, heap>>

RunReturn ==
  /\ At("return") \/ At("early_return")
  /\ result' = regs[op.value] /\ todo' = <<>> /\ stage' = "returned"
  /\ UNCHANGED <<regs, memory, fault>>

\* A function that was refused, has returned or has failed stops.
Stopped ==
  /\ stage \in {"rejected", "unsupported", "unverified", "returned", "trapped"} \/ fault # "none"
  /\ UNCHANGED vars

RunAddress == RunAddrOf \/ RunAddrOfField \/ RunPayload \/ RunDeref \/ RunBorrow
RunValue == RunConst \/ RunEnum \/ RunRecord \/ RunLoad \/ RunMove \/ RunStore
RunHeap == RunDrop \/ RunFreeBoxShell \/ RunHeapAlloc \/ RunUnbox \/ RunBufferNew \/ RunPush \/ RunLen
RunBlock == RunIf \/ RunCase \/ RunLoop \/ EndBranch \/ EndCondition \/ EndTurn \/ RunReturn
Next == CompileFunction \/ CallFunction \/ RunAddress \/ RunValue \/ RunHeap \/ RunCall \/ RunBlock \/ Stopped

Spec == Init /\ [][Next]_vars
=============================================================================
