--------------------------------- MODULE Vm ---------------------------------
(***************************************************************************)
(* vm.rs: the stack machine that runs the compiler's code.  The machine m  *)
(* is its program counter, operand stack and local slots, the state st of  *)
(* the program (global variables and host), and how it ended: "run" while  *)
(* it runs, "value", "throw", "underflow" (the InternalError), "panic" or  *)
(* "unknown" (it read an element the model cannot name).                   *)
(* The opcodes the compiler never emits are left out.                      *)
(***************************************************************************)
EXTENDS Compiler

Top(m) == m.stack[Len(m.stack)]
Below1(m) == m.stack[Len(m.stack) - 1]
Dropped(m, n) == SubSeq(m.stack, 1, Len(m.stack) - n)
Halt(m, end, v) == [m EXCEPT !.end = end, !.value = v]
\* Replaces the n topmost values by v and goes to the next instruction.
Push(m, n, v) == [m EXCEPT !.stack = Append(Dropped(m, n), v), !.pc = @ + 1]
\* pop!: an instruction that needs more values than there are ends the run.
Needs(m, n, next) == IF Len(m.stack) < n THEN Halt(m, "underflow", Undefined) ELSE next

---------------------------------------------------------------------------
\* Operators.  The int paths stay in the int range or leave it as floats; the
\* division that overflows the int range panics.
Overflows(a, b) == IsInt(a) /\ IsInt(b) /\ a.num = -MaxInt - 1 /\ b.num = -1
VmAdd(a, b) ==
    CASE IsInt(a) /\ IsInt(b) -> Num(a.num + b.num)
      [] Is(a, "str") \/ Is(b, "str") -> Str(ToText(a) \o ToText(b))
      [] OTHER -> Float("+", ToNumber(a), ToNumber(b))
VmArith(op, a, b) ==
    IF op = "Add" THEN VmAdd(a, b)
    ELSE Float(CASE op = "Sub" -> "-" [] op = "Mul" -> "*" [] op = "Div" -> "/" [] op = "Mod" -> "%",
               ToNumber(a), ToNumber(b))

VmLooseEq(a, b) ==
    CASE a = b /\ ~(Is(a, "nan") \/ Is(a, "frac")) -> TRUE
      [] {TRUE} = {Is(v, "null") \/ Is(v, "undef") : v \in {a, b}} -> TRUE
      [] Is(a, "str") /\ Is(b, "str") -> a.str = b.str
      [] OTHER -> SameNumber(ToNumber(a), ToNumber(b))
TypeTag(v) == IF IsNumber(v) THEN "number" ELSE CHOOSE tag \in DOMAIN v : TRUE
VmStrictEq(a, b) ==
    CASE a = b /\ ~(Is(a, "nan") \/ Is(a, "frac")) -> TRUE
      [] Is(a, "str") /\ Is(b, "str") -> a.str = b.str
      [] TypeTag(a) # TypeTag(b) -> FALSE
      [] OTHER -> SameNumber(ToNumber(a), ToNumber(b))
VmOrder(op, a, b) ==
    LET text == Is(a, "str") /\ Is(b, "str")
        x == ToNumber(a)
        y == ToNumber(b)
        below == IF text THEN TextBelow(a.str, b.str) ELSE Below(x, y)
        above == IF text THEN TextBelow(b.str, a.str) ELSE Below(y, x)
        same == IF text THEN a.str = b.str ELSE SameNumber(x, y)
    IN  CASE op = "Lt" -> below [] op = "Gt" -> above
          [] op = "Le" -> below \/ same [] op = "Ge" -> above \/ same
VmCompare(op, a, b) ==
    CASE op = "Eq" -> VmLooseEq(a, b)
      [] op = "Neq" -> ~VmLooseEq(a, b)
      [] op = "StrictEq" -> VmStrictEq(a, b)
      [] op = "StrictNeq" -> ~VmStrictEq(a, b)
      [] OTHER -> VmOrder(op, a, b)
\* And and Or choose between two values that are both computed.
VmLogic(op, a, b) == IF (op = "And") = Truthy(a) THEN b ELSE a
VmNeg(v) == Float("-", Num(0), ToNumber(v))
\* The cast to i32 saturates, and makes 0 of NaN.
Saturated(n) == IF n > MaxInt THEN MaxInt ELSE IF n < -MaxInt - 1 THEN -MaxInt - 1 ELSE n
VmBitNot(v) == LET n == ToNumber(v) IN Num(-1 - (IF Is(n, "num") THEN Saturated(n.num) ELSE 0))

Arithmetic == {"Add", "Sub", "Mul", "Div", "Mod"}
Comparisons == {"Eq", "Neq", "StrictEq", "StrictNeq", "Lt", "Gt", "Le", "Ge"}

BinaryStep(m, op) ==
    LET a == Below1(m)
        b == Top(m)
    IN  CASE op \in {"Div", "Mod"} /\ Overflows(a, b) -> Halt(m, "panic", Undefined)
          [] op \in Arithmetic -> Push(m, 2, VmArith(op, a, b))
          [] op \in Comparisons -> Push(m, 2, Bool(VmCompare(op, a, b)))
          [] OTHER -> Push(m, 2, VmLogic(op, a, b))

---------------------------------------------------------------------------
\* Local slots and global variables.
LoadLocal(m, slot) == Push(m, 0, IF slot \in DOMAIN m.locals THEN m.locals[slot] ELSE Undefined)
StoreLocal(m, slot) ==
    [Push(m, 1, Top(m)) EXCEPT !.locals = [i \in DOMAIN @ |-> IF i = slot THEN Top(m) ELSE @[i]]]
\* An int wraps around.
IncLocal(m, slot, amount) ==
    LET old == m.locals[slot]
        new == IF IsInt(old) THEN Num(Wrapped(old.num + amount))
               ELSE Float("+", ToNumber(old), Num(amount))
    IN  [m EXCEPT !.locals[slot] = new, !.pc = @ + 1]
GlobalName(v) == v.str[1]
LoadGlobal(m, x) == Push(m, 0, Lookup(m.st, x))
StoreGlobal(m, x) == [Push(m, 1, Top(m)) EXCEPT !.st = Store(m.st, x, Top(m))]

\* A call's answer takes the place of the n values it used, an exception too;
\* only what is no function ends the run.
Args(m, argc) == SubSeq(m.stack, Len(m.stack) - argc + 1, Len(m.stack))
Invoke(m, argc, n, this) ==
    LET f == m.stack[Len(m.stack) - argc]
        r == CallValue(f, this, Args(m, argc), m.st)
    IN  IF Is(f, "fn") THEN [Push(m, n, r.v) EXCEPT !.st = r.st] ELSE Halt(m, "throw", Undefined)
CallStep(m, argc) == Invoke(m, argc, argc + 1, Global)
CallMethodStep(m, argc) == Invoke(m, argc, argc + 2, m.stack[Len(m.stack) - argc - 1])

\* The element an index names: a string is a property's name, an int is read as a
\* u32, and of anything else the number is cast to u32, which saturates and makes
\* 0 of NaN.  Which element a fraction is cut down to, the model does not know.
MaxElem == 2 * MaxInt + 1
Clamped(n) == IF n < 0 THEN 0 ELSE IF n > MaxElem THEN MaxElem ELSE n
ElemKey(v) ==
    CASE Is(v, "str") -> v.str
      [] IsInt(v) -> Decimal(v.num % (MaxElem + 1))
      [] OTHER -> LET n == ToNumber(v) IN Decimal(IF Is(n, "num") THEN Clamped(n.num) ELSE 0)
GetElemStep(m) ==
    IF Is(Top(m), "frac") THEN Halt(m, "unknown", Undefined)
    ELSE Push(m, 2, Property(Below1(m), ElemKey(Top(m))))

Jumps(m, target, taken) == [m EXCEPT !.stack = Dropped(m, 1), !.pc = IF taken THEN target ELSE @ + 1]

---------------------------------------------------------------------------
VmStep(m, f) ==
    LET ins == f.code[m.pc] IN
    CASE ins.op = "Const" -> Push(m, 0, f.consts[ins.a])
      [] ins.op = "LoadLocal" -> LoadLocal(m, ins.a)
      [] ins.op = "StoreLocal" -> Needs(m, 1, StoreLocal(m, ins.a))
      [] ins.op = "IncLocal" -> IncLocal(m, ins.a, ins.b)
      [] ins.op = "LoadGlobal" -> LoadGlobal(m, GlobalName(f.consts[ins.a]))
      [] ins.op = "StoreGlobal" -> Needs(m, 1, StoreGlobal(m, GlobalName(f.consts[ins.a])))
      [] ins.op \in Arithmetic \union Comparisons \union {"And", "Or"} -> Needs(m, 2, BinaryStep(m, ins.op))
      [] ins.op = "Neg" -> Needs(m, 1, Push(m, 1, VmNeg(Top(m))))
      [] ins.op = "Not" -> Needs(m, 1, Push(m, 1, Bool(~Truthy(Top(m)))))
      [] ins.op = "BitNot" -> Needs(m, 1, Push(m, 1, VmBitNot(Top(m))))
      [] ins.op = "ToNumber" -> Needs(m, 1, Push(m, 1, ToNumber(Top(m))))
      [] ins.op = "Drop" -> [m EXCEPT !.stack = IF @ = <<>> THEN @ ELSE Dropped(m, 1), !.pc = @ + 1]
      [] ins.op = "Dup" -> Needs(m, 1, Push(m, 0, Top(m)))
      [] ins.op = "Jump" -> [m EXCEPT !.pc = ins.a]
      [] ins.op = "JumpIfFalse" -> Needs(m, 1, Jumps(m, ins.a, ~Truthy(Top(m))))
      [] ins.op = "GetProp" -> Needs(m, 2, Push(m, 2, Property(Below1(m), ToText(Top(m)))))
      [] ins.op = "GetElem" -> Needs(m, 2, GetElemStep(m))
      [] ins.op = "Call" -> Needs(m, ins.a + 1, CallStep(m, ins.a))
      [] ins.op = "CallMethod" -> Needs(m, ins.a + 2, CallMethodStep(m, ins.a))
      [] ins.op = "Return" -> Halt(m, "value", IF m.stack = <<>> THEN Undefined ELSE Top(m))

RECURSIVE Steps(_, _, _)
\* At most n instructions, the second half of them after the first.
Steps(m, f, n) ==
    IF m.end # "run" \/ n = 0 THEN m
    ELSE IF n > 1 THEN Steps(Steps(m, f, n \div 2), f, n - n \div 2)
    ELSE IF m.pc \in DOMAIN f.code THEN VmStep(m, f) ELSE Halt(m, "value", Undefined)

\* run_module_with_locals: the arguments fill the first slots.
RunModule(f, args, st, n) ==
    Steps([pc |-> 1, stack |-> <<>>, st |-> st, end |-> "run", value |-> Undefined,
           locals |-> [i \in DOMAIN f.locals |-> IF i \in DOMAIN args THEN args[i] ELSE Undefined]],
          f, n)
=============================================================================
