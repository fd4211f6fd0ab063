------------------------------- MODULE Regex --------------------------------
(* The regular expressions of Arsenal (Arsenal/Lex/rgx_*.c): the set of     *)
(* ranges a bracket stands for, the tree an expression is parsed to, the    *)
(* program it is compiled to (rgx_compile.c), and the threads that run it   *)
(* on a text (rgx_exec.c).  A text is a sequence of characters; positions   *)
(* in it, and lines and columns, count from 0.                              *)
(* Characters are numbers. An expression is a sequence of its signs, which  *)
(* __handle_factor and __handle_postfix tell apart: [is |-> "char", c |-> ..] *)
(* (escaped or not), "quote" with its text, "set" with neg and ranges,      *)
(* "any", "^", "$", "\\B", "\\E", "(", "(?=", "(?!", ")", "|", "name", and  *)
(* the postfixes "*", "+", "?" and "count" with what makes them lazy.       *)
EXTENDS Integers, Sequences, SequencesExt

CONSTANTS
    WcharMax,         \* AR_WCHARMAX
    Infinite,         \* AR_SIZE_MAX as the most of a count
    Nul, CR, LF,
    LineTerminator,   \* what Lex_IsLineTerminator answers yes to
    Lower, Upper      \* AR_tolower, AR_towupper: functions of characters

(* ---- sets of ranges ---------------------------------------------------- *)

Piece(beg, end) == IF beg <= end THEN << <<beg, end>> >> ELSE <<>>

Larger(x, y) == IF x < y THEN y ELSE x
Smaller(x, y) == IF x < y THEN x ELSE y

\* A range is cut where ranges of the sorted list begin and end.
RECURSIVE InsertRangeToCharSet(_, _, _)
InsertRangeToCharSet(ranges, beg, end) ==
    IF ranges = <<>> THEN << <<beg, end>> >>
    ELSE LET curr == Head(ranges)
             b == Larger(beg, curr[1])
             e == Smaller(end, curr[2]) IN
         IF curr[2] < beg THEN <<curr>> \o InsertRangeToCharSet(Tail(ranges), beg, end)
         ELSE IF end < curr[1] THEN << <<beg, end>> >> \o ranges
         ELSE Piece(Smaller(beg, curr[1]), b - 1) \o << <<b, e>> >> \o
              IF e < end THEN InsertRangeToCharSet(Tail(ranges), e + 1, end)
              ELSE Piece(e + 1, curr[2]) \o Tail(ranges)

RECURSIVE Gaps(_, _)
Gaps(ranges, beg) ==
    IF ranges = <<>> THEN IF beg < WcharMax THEN << <<beg, WcharMax>> >> ELSE <<>>
    ELSE LET curr == Head(ranges) IN
         Piece(beg, curr[1] - 1) \o Gaps(Tail(ranges), Smaller(curr[2] + 1, WcharMax))

ReverseNegativeCharSet(ranges) == Gaps(ranges, 0)

CharSet(sign) ==
    LET Insert(ranges, r) == InsertRangeToCharSet(ranges, r[1], r[2])
        ranges == FoldLeft(Insert, <<>>, sign.ranges) IN
    IF sign.neg THEN ReverseNegativeCharSet(ranges) ELSE ranges

(* ---- trees ------------------------------------------------------------- *)

NoNode == [type |-> "none"]

Cset(beg, end) == [type |-> "range", beg |-> beg, end |-> end]
LeafNode(type) == [type |-> type]
Fork(type) == [type |-> type, left |-> NoNode, right |-> NoNode]
Final(val) == [type |-> "final", val |-> val]
Lazily(type, node, lazy) == [type |-> type, left |-> node, non_greedy |-> lazy]
FixCount(node, n) == [type |-> "fixcount", left |-> node, fix_count |-> n]
LookaheadNode(node, neg) == [type |-> "lookahead", left |-> node, negative |-> neg]

InsertToNode(root, node) ==
    IF root.left = NoNode THEN [root EXCEPT !.left = node]
    ELSE IF root.right = NoNode THEN [root EXCEPT !.right = node]
    ELSE [root EXCEPT !.left = root, !.right = node]

CharSetNode(sign) ==
    LET Insert(root, r) == InsertToNode(root, Cset(r[1], r[2])) IN
    FoldLeft(Insert, Fork("branch"), CharSet(sign))

QuoteNode(sign) ==
    LET Insert(root, c) == InsertToNode(root, Cset(c, c)) IN
    FoldLeft(Insert, Fork("cat"), sign.text)

\* Mutant: as many more times as there may be in all.
LoopcountFromAll(expr, min, max, lazy) ==
    IF min = max THEN FixCount(expr, min)
    ELSE IF max = Infinite THEN Lazily("plus", expr, lazy)
    ELSE InsertToNode(InsertToNode(Fork("cat"), FixCount(expr, min)),
                      FixCount(Lazily("quest", expr, lazy), max))

Loopcount(expr, min, max, lazy) ==
    LET Optional == Lazily("quest", expr, lazy) IN
    IF max = Infinite
    THEN IF min = 0 THEN Lazily("star", expr, lazy)
         ELSE InsertToNode(InsertToNode(Fork("cat"), FixCount(expr, min)),
                           Lazily("star", expr, lazy))
    ELSE IF min = max THEN FixCount(expr, min)
    ELSE IF min = 0 THEN FixCount(Optional, max)
    ELSE InsertToNode(InsertToNode(Fork("cat"), FixCount(expr, min)),
                      FixCount(Optional, max - min))

(* ---- parsing: [node, next], or next = 0 where the expression is wrong --- *)

Wrong == [node |-> NoNode, next |-> 0]
End == "end"

Is(expr, p) == IF p <= Len(expr) THEN expr[p].is ELSE End

Postfix(expr, res) ==
    LET p == res.next
        At(node) == [node |-> node, next |-> p + 1]
        sign == expr[p] IN
    CASE Is(expr, p) = "*" -> At(Lazily("star", res.node, sign.lazy))
      [] Is(expr, p) = "+" -> At(Lazily("plus", res.node, sign.lazy))
      [] Is(expr, p) = "?" -> At(Lazily("quest", res.node, sign.lazy))
      [] Is(expr, p) = "count" ->
            IF sign.max # Infinite /\ (sign.min > sign.max \/ sign.max = 0) THEN Wrong
            ELSE At(Loopcount(res.node, sign.min, sign.max, sign.lazy))
      [] OTHER -> res

RECURSIVE Expr(_, _, _, _, _, _)

\* names: what RGX_FindFromNameSet finds.
Factor(expr, p, names) ==
    LET sign == expr[p]
        is == Is(expr, p)
        Made(node) == [node |-> node, next |-> p + 1]
        Within(res) ==
            IF is = "(" \/ res.next = 0 THEN res
            ELSE [res EXCEPT !.node = LookaheadNode(res.node, is = "(?!")]
        Prefix ==
            CASE is = "quote" -> IF sign.text = <<>> THEN Wrong ELSE Made(QuoteNode(sign))
              [] is \in {"(", "(?=", "(?!"} ->
                    Within(Expr(expr, p + 1, ")", names, NoNode, NoNode))
              [] is = "name" -> IF sign.name \in DOMAIN names THEN Made(names[sign.name])
                                ELSE Wrong
              [] is = "set" -> Made(CharSetNode(sign))
              [] is \in {"any", "\\B", "\\E"} -> Made(LeafNode(is))
              [] is = "char" -> Made(Cset(sign.c, sign.c))
              [] OTHER -> Wrong
        Then(res) == IF res.next = 0 THEN Wrong ELSE Postfix(expr, res) IN
    IF is \in {"^", "$"} THEN Made(LeafNode(is)) ELSE Then(Prefix)

Expr(expr, p, close, names, branch, cat) ==
    LET node == IF branch = NoNode THEN cat
                ELSE IF cat = NoNode THEN branch ELSE InsertToNode(branch, cat)
        Root(tree, type) == IF tree = NoNode THEN Fork(type) ELSE tree
        Closes(res) == Is(expr, res.next) = "|"
        GoOn(res) ==
            IF res.next = 0 THEN Wrong
            ELSE Expr(expr, IF Closes(res) THEN res.next + 1 ELSE res.next, close, names,
                      IF ~Closes(res) THEN branch
                      ELSE InsertToNode(Root(branch, "branch"),
                                        IF cat = NoNode THEN res.node
                                        ELSE InsertToNode(cat, res.node)),
                      IF Closes(res) THEN NoNode ELSE InsertToNode(Root(cat, "cat"), res.node)) IN
    IF Is(expr, p) \notin {End, close} THEN GoOn(Factor(expr, p, names))
    ELSE IF Is(expr, p) # close \/ node = NoNode THEN Wrong
    ELSE [node |-> node, next |-> IF close = End THEN p ELSE p + 1]

ParseExpr(expr, names) == Expr(expr, 1, End, names, NoNode, NoNode)

(* ---- programs: sequences of instructions ------------------------------- *)

Ins(opcode) == [opcode |-> opcode]
Jump(opcode, left, right) == [opcode |-> opcode, left |-> left, right |-> right]

\* A BRANCH instruction; non_greedy swaps its two ways.
Either(left, right, non_greedy) ==
    IF non_greedy THEN Jump("branch", right, left) ELSE Jump("branch", left, right)

\* The code of a node that begins at instruction pc; inner is that of the node
\* within it, or of its left one.
RECURSIVE EmitCode(_, _)
EmitCode(node, pc) ==
    LET type == node.type
        Two == NoNode \notin {node.left, node.right}
        Behind(inner) == pc + 1 + Len(inner)
        Branched(inner, right) ==
            <<Either(pc + 1, Behind(inner) + 1, FALSE)>> \o inner \o
            <<Jump("jmp", Behind(inner) + 1 + Len(right), 0)>> \o right
        Forked(inner) ==
            LET right == EmitCode(node.right, CASE type = "cat" -> pc + Len(inner)
                                                [] Two -> Behind(inner) + 1
                                                [] OTHER -> pc) IN
            IF type = "branch" /\ Two THEN Branched(inner, right) ELSE inner \o right
        Around(inner) ==
            CASE type \in {"cat", "branch"} -> Forked(inner)
              [] type = "star" -> <<Either(pc + 1, Behind(inner) + 1, node.non_greedy)>> \o
                                  inner \o <<Jump("jmp", pc, 0)>>
              [] type = "quest" -> <<Either(pc + 1, Behind(inner), node.non_greedy)>> \o inner
              [] type = "plus" -> inner \o <<Either(pc, Behind(inner), node.non_greedy)>>
              [] type = "fixcount" ->
                    << [opcode |-> "loop_beg", fix_count |-> node.fix_count,
                        left |-> Behind(inner) + 1] >> \o inner \o <<Ins("loop_end")>>
              [] type = "lookahead" ->
                    << [opcode |-> "lookahead_beg", negative |-> node.negative,
                        left |-> Behind(inner) + 1] >> \o inner \o <<Ins("lookahead_end")>>
        Before == IF type \in {"cat", "plus"} \/ (type = "branch" /\ ~Two) THEN 0 ELSE 1 IN
    CASE type = "none" -> <<>>
      [] type = "range" -> << [opcode |-> "char", beg |-> node.beg, end |-> node.end] >>
      [] type = "final" -> << [opcode |-> "match", final |-> node.val] >>
      [] type \in {"^", "$", "any", "\\B", "\\E"} -> <<Ins(type)>>
      [] OTHER -> Around(EmitCode(node.left, pc + Before))

\* The program of a rule: its tree, then its value (Lex_InsertRule).
Compile(node, val) ==
    EmitCode(InsertToNode(InsertToNode(Fork("cat"), node), Final(val)), 1)

(* ---- threads ----------------------------------------------------------- *)

Thread(pc, sp, line, col, act) ==
    [pc |-> pc, sp |-> sp, line |-> line, col |-> col, act |-> act]

NoThread == Thread(0, 0, 0, 0, FALSE)   \* nothing matched
Never == Thread(-1, 0, 0, 0, FALSE)     \* the call does not return

CharAt(text, sp) == IF sp < Len(text) THEN text[sp + 1] ELSE Nul

IsLineTerminator(c) == c \in LineTerminator

IsCrLf(text, sp) == CharAt(text, sp) = CR /\ CharAt(text, sp + 1) = LF

\* A thread list of one generation, and the instructions marked in it.
EmptyList == [lst |-> <<>>, marked |-> {}]

RECURSIVE AddThread(_, _, _)
AddThread(prog, list, thd) ==
    LET ins == prog[thd.pc]
        marked == [list EXCEPT !.marked = @ \cup {thd.pc}]
        ways == CASE ins.opcode = "jmp" -> <<ins.left>>
                  [] ins.opcode = "branch" -> <<ins.left, ins.right>>
                  [] OTHER -> <<>>
        Along(lst, pc) == AddThread(prog, lst, [thd EXCEPT !.pc = pc]) IN
    IF thd.pc \in list.marked THEN list
    ELSE IF ways # <<>> THEN FoldLeft(Along, marked, ways)
    ELSE [marked EXCEPT !.lst = Append(@, thd)]

\* RGX_ACT_INCLINE, thd.act: a CR was counted as a column, its LF ends the line.
CheckIsNewline(text, thd) ==
    IF ~IsLineTerminator(CharAt(text, thd.sp)) THEN [thd EXCEPT !.col = @ + 1]
    ELSE IF ~thd.act /\ IsCrLf(text, thd.sp)
    THEN [thd EXCEPT !.col = @ + 1, !.act = TRUE]
    ELSE [thd EXCEPT !.line = @ + 1, !.col = 0, !.act = FALSE]

\* Whether an instruction takes the character c.
Takes(ins, c, flags) ==
    /\ c # Nul
    /\ IF ins.opcode = "any" THEN "single_line" \in flags \/ ~IsLineTerminator(c)
       ELSE \E x \in IF "ignore_case" \in flags THEN {Lower[c], Upper[c]} ELSE {c} :
                ins.beg <= x /\ x <= ins.end

\* Whether a position is the one that "^", "$", "\B" or "\E" asks for.
Holds(opcode, text, sp) ==
    CASE opcode = "^" -> sp = 0
      [] opcode = "$" -> sp = Len(text)
      [] opcode = "\\B" -> sp = 0 \/ IsLineTerminator(CharAt(text, sp - 1))
      [] opcode = "\\E" -> sp = Len(text) \/ IsLineTerminator(CharAt(text, sp))

\* A thread that has matched goes on at pc.
GoesOn(res, pc) == IF res \in {NoThread, Never} THEN res ELSE [res EXCEPT !.pc = pc]

\* So does the one that looked ahead, from where it was.
Looked(res, thd, ins) ==
    IF res = Never THEN Never
    ELSE IF (res # NoThread) # ins.negative THEN [thd EXCEPT !.pc = ins.left]
    ELSE NoThread

RECURSIVE Run(_, _, _, _, _)

\* n matches of the loop's body, each one settled before the next.
RECURSIVE RunLoop(_, _, _, _, _)
RunLoop(prog, text, flags, thd, n) ==
    IF n = 0 \/ thd \in {NoThread, Never} THEN thd
    ELSE RunLoop(prog, text, flags,
              GoesOn(Run(prog, text, flags, thd, "loop_end"), thd.pc), n - 1)

\* What a thread becomes in the next generation: one thread at most.
Successor(prog, text, flags, thd) ==
    LET ins == prog[thd.pc]
        next == [thd EXCEPT !.pc = @ + 1] IN
    CASE ins.opcode \in {"char", "any"} ->
            IF Takes(ins, CharAt(text, thd.sp), flags)
            THEN [CheckIsNewline(text, next) EXCEPT !.sp = @ + 1] ELSE NoThread
      [] ins.opcode = "loop_beg" ->
            GoesOn(RunLoop(prog, text, flags, next, ins.fix_count), ins.left)
      [] ins.opcode = "lookahead_beg" ->
            Looked(Run(prog, text, flags, next, "lookahead_end"), thd, ins)
      [] OTHER -> IF Holds(ins.opcode, text, thd.sp) THEN next ELSE NoThread

\* One generation: the next list, and with it [cut, final], whether a thread at
\* the end instruction has cut off those behind it, and the last that ended.
Generation(prog, text, flags, end, lst, final) ==
    LET Joined(next, res) ==
            CASE res = Never -> [next EXCEPT !.cut = TRUE, !.final = Never]
              [] res = NoThread -> next
              [] OTHER -> AddThread(prog, next, res)
        Serve(next, thd) ==
            IF next.cut THEN next
            ELSE IF prog[thd.pc].opcode = end THEN [next EXCEPT !.cut = TRUE, !.final = thd]
            ELSE Joined(next, Successor(prog, text, flags, thd)) IN
    FoldLeft(Serve, [lst |-> <<>>, marked |-> {}, cut |-> FALSE, final |-> final], lst)

\* The generations from the list lst on.  A thread that ends in a later one
\* takes the place of an earlier one's; a lookahead is content with the first.
\* A list that comes again comes for ever.
RECURSIVE Generations(_, _, _, _, _, _, _)
Generations(prog, text, flags, end, lst, final, past) ==
    LET GoOn(next) ==
            IF next.final = Never \/ (end = "lookahead_end" /\ next.cut) THEN next.final
            ELSE Generations(prog, text, flags, end, next.lst, next.final, past \cup {lst}) IN
    IF lst = <<>> THEN final
    ELSE IF lst \in past THEN Never
    ELSE GoOn(Generation(prog, text, flags, end, lst, final))

Run(prog, text, flags, thd, end) ==
    Generations(prog, text, flags, end, AddThread(prog, EmptyList, thd).lst, NoThread, {})
=============================================================================
