------------------------------- MODULE Parser --------------------------------
(* A context of the table-driven parser, Library/Arsenal/Arsenal/Parser/    *)
(* parser.c: Parser_AddToken with its shifts, reductions, acceptance and     *)
(* error recovery, one step of its loop at a time, between a caller that     *)
(* adds tokens while they are taken and handlers that make, take and free    *)
(* nodes and may fail.  States are numbered from 1.                          *)
EXTENDS LalrGrammar

CONSTANTS
    Parsers,             \* a sequence of parsers: the grammar, the child each
                         \* rule without a handler returns (0: it has one; one
                         \* more than there are: none), the values the lexer
                         \* gives
    Tables,              \* the tables made for each
    MaxTokens,           \* how many tokens a caller adds at most
    RepairMaxValidShift  \* PSR_REPAIR_MAX_VALID_SHIFT

\* The mark of every config has come there from the state before.
LeadsTo(tables, s, t) ==
    /\ t \in DOMAIN tables.actions \ {1}
    /\ \A c \in tables.configs[t] : c[2] > 0 => <<c[1], c[2] - 1>> \in tables.configs[s]

\* What the tables of an LR parser have of the states they were made from.
AreLR(tables, g) ==
    /\ 1 \in DOMAIN tables.actions
    /\ \A c \in tables.configs[1] : c[2] = 0
    /\ \A s \in DOMAIN tables.actions :
          /\ <<1, 0>> \in tables.configs[s] => s = 1
          /\ \A n \in DOMAIN g.rules \ {1} :
                <<n, 0>> \in tables.configs[s] =>
                    LeadsTo(tables, s, tables.goto[s][g.rules[n].head])
          /\ \A t \in TermNames(g) :
                LET action == tables.actions[s][t]
                IN  /\ action.type = "shift" => LeadsTo(tables, s, action.to)
                    /\ action.type = "reduce" =>
                          /\ action.rule_num \in DOMAIN g.rules \ {1}
                          /\ <<action.rule_num, Len(g.rules[action.rule_num].body)>>
                                 \in tables.configs[s]
                    /\ action.type = "accept" => <<1, 1>> \in tables.configs[s]

\* Grammars as Parser_CheckIsValidGrammar finds them, which a caller asks
\* first, and tables as Parser_CreateParser makes them.
ASSUME ParserAssumption ==
    /\ RepairMaxValidShift \in Nat \ {0}
    /\ MaxTokens \in Nat \ {0}
    /\ \A p \in DOMAIN Parsers :
          LET g == Parsers[p].grammar
          IN  /\ IsValidGrammar(g)
              /\ {EOI, Error} \subseteq TermNames(g)
              /\ AreLR(Tables[p], g)
              /\ Parsers[p].tokens \subseteq {t.val : t \in ToSet(g.terms)}
              /\ \A n \in DOMAIN g.rules :
                    /\ Len(g.rules[n].body) \in Nat
                    /\ Parsers[p].auto_ret[n] \in 0 .. Len(g.rules[n].body) + 1

VARIABLES
    psr,                 \* the parser of this context
    state_stack,
    node_stack,
    is_repair,
    repair_valid_shift,
    is_accepted,
    pc,                  \* "idle", or inside Parser_AddToken
    handled,             \* error_f has been called for this token
    status,              \* of the last call: "yes", "no" or "failed"
    input,               \* the values added since the last result or clearing
    made,                \* the positions of the input that have a leaf
    freed,               \* how often each position's leaf was freed
    erred                \* the position of the first error, or 0

stacks == <<state_stack, node_stack>>
repair == <<is_repair, repair_valid_shift>>
ghosts == <<made, freed, erred>>
vars == <<psr, stacks, repair, is_accepted, pc, handled, status, input, ghosts>>

-----------------------------------------------------------------------------
(* Tables, and nodes: a leaf is its position in the input, an inner node the *)
(* rule that made it over two or more others; and of each, how often freeing *)
(* it frees the leaf of a position.                                          *)

GetAction(state, t) == Tables[psr].actions[state][t]
GetState(state, x) == Tables[psr].goto[state][x]

EndOfInput == 0

TermBucketSize == 256

\* A bucket with one term is not searched.
FindTermFromInfoTable(g, val) ==
    LET bucket == {t \in ToSet(g.terms) :
                      t.val % TermBucketSize = val % TermBucketSize}
    IN  IF Cardinality(bucket) = 1 THEN (CHOOSE t \in bucket : TRUE).name
        ELSE (CHOOSE t \in bucket : t.val = val).name

Positions == 1 .. MaxTokens

NothingFreed == [k \in Positions |-> 0]

NullNode == [rule |-> 0, at |-> 0, kids |-> <<>>, frees |-> NothingFreed]

Leaf(p) ==
    [rule |-> 0, at |-> p, kids |-> <<>>,
     frees |-> [k \in Positions |-> IF k = p THEN 1 ELSE 0]]

\* How often the leaf of position k is freed with the nodes of a sequence.
Frees(nodes, k) ==
    LET sum[i \in 0 .. Len(nodes)] ==
            IF i = 0 THEN 0 ELSE sum[i - 1] + nodes[i].frees[k]
    IN  sum[Len(nodes)]

\* What free_f, called on every node of the sequence that is one, frees.
Freeing(nodes) == [k \in Positions |-> freed[k] + Frees(nodes, k)]

\* Mutant: with the node that auto_ret returns.
FreeingAll(nodes, auto_ret) == Freeing(nodes)

\* The nodes a reduction does not return: that one is NULL by then.
FreeingOthers(nodes, auto_ret) ==
    Freeing([i \in DOMAIN nodes |-> IF i = auto_ret THEN NullNode ELSE nodes[i]])

\* rule_f takes the children: nothing over nothing, one as it is.
RuleNode(n, nodes) ==
    LET IsNode(node) == node # NullNode
        real == {i \in DOMAIN nodes : IsNode(nodes[i])}
    IN  CASE real = {} -> NullNode
          [] \E i \in real : real = {i} -> nodes[CHOOSE i \in real : TRUE]
          [] OTHER -> [rule |-> n, at |-> 0, kids |-> SelectSeq(nodes, IsNode),
                       frees |-> [k \in Positions |-> Frees(nodes, k)]]

\* Without one, the child auto_ret names, if it names one.
AutoNode(nodes, auto_ret) ==
    IF auto_ret \in DOMAIN nodes THEN nodes[auto_ret] ELSE NullNode

Pop(stack, n) == SubSeq(stack, 1, Len(stack) - n)

Top(stack) == Last(stack)

Token == FindTermFromInfoTable(Parsers[psr].grammar, Last(input))

-----------------------------------------------------------------------------
(* One step.                                                                 *)

Return(answer) ==
    /\ status' = answer
    /\ pc' = "idle"

RecoverDone ==
    /\ is_repair' = FALSE
    /\ repair_valid_shift' = 0

\* A shift or a reduction, the third of a repair ends it.
CountRepair ==
    IF ~is_repair THEN UNCHANGED repair
    ELSE IF repair_valid_shift + 1 >= RepairMaxValidShift THEN RecoverDone
    ELSE /\ repair_valid_shift' = repair_valid_shift + 1
         /\ UNCHANGED is_repair

\* The state is pushed before leaf_f is asked for the node.
HandleShift(action) ==
    /\ state_stack' = Append(state_stack, action.to)
    /\ \/ /\ node_stack' = Append(node_stack, Leaf(Len(input)))
          /\ made' = made \cup {Len(input)}
          /\ CountRepair
          /\ Return("yes")
       \/ /\ UNCHANGED <<node_stack, made, repair>>
          /\ Return("failed")
    /\ UNCHANGED <<psr, is_accepted, handled, input, freed, erred>>

\* With rule_f, or without one and the node auto_ret names returned and the
\* others freed.  rule_f may fail, and nothing has been popped.
HandleReduce(action) ==
    LET rule == Parsers[psr].grammar.rules[action.rule_num]
        count == Len(rule.body)
        nodes == SubSeq(node_stack, Len(node_stack) - count + 1, Len(node_stack))
        below == Pop(state_stack, count)
        Pushed(node) ==
            /\ state_stack' = Append(below, GetState(Top(below), rule.head))
            /\ node_stack' = Append(Pop(node_stack, count), node)
            /\ CountRepair
            /\ UNCHANGED <<pc, status>>
        auto_ret == Parsers[psr].auto_ret[action.rule_num]
    IN  /\ \/ /\ auto_ret = 0
              /\ Pushed(RuleNode(action.rule_num, nodes))
              /\ UNCHANGED freed
           \/ /\ auto_ret > 0
              /\ Pushed(AutoNode(nodes, auto_ret))
              /\ freed' = FreeingOthers(nodes, auto_ret)
           \/ /\ auto_ret = 0
              /\ Return("failed")
              /\ UNCHANGED <<stacks, repair, freed>>
        /\ UNCHANGED <<psr, is_accepted, handled, input, made, erred>>

Shift ==
    /\ pc = "act"
    /\ GetAction(Top(state_stack), Token).type = "shift"
    /\ HandleShift(GetAction(Top(state_stack), Token))

Reduce ==
    /\ pc = "act"
    /\ GetAction(Top(state_stack), Token).type = "reduce"
    /\ HandleReduce(GetAction(Top(state_stack), Token))

Accept ==
    /\ pc = "act"
    /\ GetAction(Top(state_stack), Token).type = "accept"
    /\ RecoverDone
    /\ is_accepted' = TRUE
    /\ Return("yes")
    /\ UNCHANGED <<psr, stacks, handled, input, ghosts>>

-----------------------------------------------------------------------------
(* Errors.                                                                   *)

IsError ==
    /\ pc = "act"
    /\ GetAction(Top(state_stack), Token).type = "error"

FirstError == erred' = IF erred = 0 THEN Len(input) ELSE erred

\* error_f answers that the token is to be left out, that error is to be
\* tried, or that the call is to fail.
OnError ==
    /\ IsError
    /\ ~is_repair
    /\ FirstError
    /\ \/ /\ is_repair' = TRUE
          /\ handled' = TRUE
          /\ UNCHANGED <<pc, status>>
       \/ /\ pc' = "recover"
          /\ UNCHANGED <<is_repair, handled, status>>
       \/ /\ Return("failed")
          /\ UNCHANGED <<is_repair, handled>>
    /\ UNCHANGED <<psr, stacks, repair_valid_shift, is_accepted, input, made, freed>>

\* In repair a token that does not fit is dropped without a word.
Discard ==
    /\ IsError
    /\ is_repair
    /\ Token # EOI
    /\ FirstError
    /\ Return("yes")
    /\ UNCHANGED <<psr, stacks, repair, is_accepted, handled, input, made, freed>>

\* At the end of input there is nothing more to drop; the call answers what
\* error_f does, if it has not been asked.
EndInRepair ==
    /\ IsError
    /\ is_repair
    /\ Token = EOI
    /\ FirstError
    /\ IF handled THEN Return("no") ELSE \E s \in {"yes", "no", "failed"} : Return(s)
    /\ UNCHANGED <<psr, stacks, repair, is_accepted, handled, input, made, freed>>

OnTop(type) ==
    /\ pc = "recover"
    /\ state_stack # <<>>
    /\ GetAction(Top(state_stack), Error).type = type

RecoverReduce ==
    /\ OnTop("reduce")
    /\ HandleReduce(GetAction(Top(state_stack), Error))

RecoverPop ==
    /\ OnTop("error")
    /\ freed' = Freeing(<<Top(node_stack)>>)
    /\ node_stack' = Pop(node_stack, 1)
    /\ state_stack' = Pop(state_stack, 1)
    /\ UNCHANGED <<psr, repair, is_accepted, pc, handled, status, input, made, erred>>

\* error is shifted with no node, and the token tried again.
RecoverShift ==
    /\ OnTop("shift")
    /\ state_stack' = Append(state_stack, GetAction(Top(state_stack), Error).to)
    /\ node_stack' = Append(node_stack, NullNode)
    /\ is_repair' = TRUE
    /\ repair_valid_shift' = 0
    /\ pc' = "act"
    /\ UNCHANGED <<psr, is_accepted, handled, status, input, ghosts>>

RecoverFails ==
    /\ pc = "recover"
    /\ state_stack = <<>>
    /\ Return("no")
    /\ UNCHANGED <<psr, stacks, repair, is_accepted, handled, input, ghosts>>

-----------------------------------------------------------------------------
(* The caller.                                                               *)

Ended == input # <<>> /\ Last(input) = EndOfInput

\* Tokens are added while they are taken, and none after the end of input; a
\* new input begins when the last one's result was taken or cleared away.
AddToken ==
    /\ pc = "idle"
    /\ status = "yes"
    /\ ~is_accepted
    /\ ~Ended
    /\ \E val \in Parsers[psr].tokens :
         /\ input' = Append(input, val)
         /\ Len(input') < MaxTokens \/ val = EndOfInput
    /\ IF state_stack = <<>>
       THEN state_stack' = <<1>> /\ node_stack' = <<NullNode>>
       ELSE UNCHANGED stacks
    /\ pc' = "act"
    /\ handled' = FALSE
    /\ IF input = <<>> THEN made' = {} /\ freed' = NothingFreed /\ erred' = 0
       ELSE UNCHANGED ghosts
    /\ UNCHANGED <<psr, repair, is_accepted, status>>

\* The caller frees what it is given.
GetResult ==
    /\ pc = "idle"
    /\ is_accepted
    /\ freed' = Freeing(<<Top(node_stack)>>)
    /\ state_stack' = Pop(state_stack, 1)
    /\ node_stack' = Pop(node_stack, 1)
    /\ is_accepted' = FALSE
    /\ input' = <<>>
    /\ UNCHANGED <<psr, repair, pc, handled, status, made, erred>>

Clear ==
    /\ pc = "idle"
    /\ freed' = Freeing(node_stack)
    /\ is_accepted' = FALSE
    /\ RecoverDone
    /\ state_stack' = <<>>
    /\ node_stack' = <<>>
    /\ input' = <<>>
    /\ status' = "yes"
    /\ UNCHANGED <<psr, pc, handled, made, erred>>

-----------------------------------------------------------------------------
Init ==
    /\ psr \in DOMAIN Parsers
    /\ state_stack = <<>>
    /\ node_stack = <<>>
    /\ is_repair = FALSE
    /\ repair_valid_shift = 0
    /\ is_accepted = FALSE
    /\ pc = "idle"
    /\ handled = FALSE
    /\ status = "yes"
    /\ input = <<>>
    /\ made = {}
    /\ freed = NothingFreed
    /\ erred = 0

Loop == Shift \/ Reduce \/ Accept \/ OnError \/ Discard \/ EndInRepair
        \/ RecoverReduce \/ RecoverPop \/ RecoverShift \/ RecoverFails

Caller == AddToken \/ GetResult \/ Clear

ParserNext == Loop \/ Caller

\* The caller waits for a call to return.
ParserFairness == WF_vars(pc # "idle" /\ Loop)

Spec == Init /\ [][ParserNext]_vars /\ ParserFairness

-----------------------------------------------------------------------------
(* Properties.                                                               *)

TypeOK ==
    /\ psr \in DOMAIN Parsers
    /\ \A k \in DOMAIN state_stack : state_stack[k] \in DOMAIN Tables[psr].actions
    /\ is_repair \in BOOLEAN
    /\ repair_valid_shift \in 0 .. RepairMaxValidShift - 1
    /\ is_accepted \in BOOLEAN
    /\ pc \in {"idle", "act", "recover"}
    /\ handled \in BOOLEAN
    /\ status \in {"yes", "no", "failed"}
    /\ input \in Seq(Parsers[psr].tokens)
    /\ made \subseteq Positions
    /\ DOMAIN freed = Positions
    /\ erred \in {0} \cup Positions

\* Whatever fails, every leaf made is on the stack, once, or was freed, once;
\* and a node has a state, but for the one whose leaf failed.
NodesFreedOnce ==
    /\ \A k \in Positions :
          freed[k] + Frees(node_stack, k) = IF k \in made THEN 1 ELSE 0
    /\ Len(state_stack) - Len(node_stack) \in
          IF status = "failed" /\ pc = "idle" THEN {0, 1} ELSE {0}

\* A repair ends only by a valid shift after the error, as parser.c:674-684 says
\* of it, so a token that stays wrong is dropped and Parser_AddToken returns.
EveryTokenIsAnswered == []<>(pc = "idle")
=============================================================================
