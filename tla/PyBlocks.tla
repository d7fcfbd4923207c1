------------------------------ MODULE PyBlocks ------------------------------
(***************************************************************************)
(* pythont's modern pipeline (src/pythont/pythont.c:168-940 and 1364-1385):*)
(* the lexer with its stack of indents, the recursive parser of statements *)
(* and blocks, and what of the tree is delegated or emitted as C.          *)
(*                                                                         *)
(* The parser's call stack is `frames`; `tok` is the current token, None   *)
(* while ast_next is due.  An expression is one token and one node, so     *)
(* the fields of a node are left out: a line is known by its number, and   *)
(* `tree` says in whose suite it was put and which branch it continues.    *)
(***************************************************************************)
EXTENDS PySource, SequencesExt

VARIABLES
  source,   \* the lines of the file that have been read
  lexer,    \* line, at_line_start, indentation, what is left of the line,
            \* indent_stack above its 0, pending_dedents
  tok,      \* parser->current
  frames,   \* the calls of the parser, outermost first
  tree,     \* statement line -> [suite, branch]
  dropped,  \* lines whose node or block was lost to a NULL
  nodes,    \* ast_node_count
  null,     \* a NULL is being returned
  verdict   \* parsing, then what ast_compile_source returns

modern == <<lexer, tok, frames, tree, dropped, nodes, null, verdict>>

None == "none"

\* The tokens of a line, without indentation and end.
Words(form) ==
  CASE form \in {"blank", "crblank", "comment"} -> <<>>
    [] form \in {"simple", "dynamic"} -> <<"expr">>
    [] form = "semi" -> <<"expr", ";", "expr">>
    [] form \in {"if", "elif", "while"} -> <<form, "expr", ":">>
    [] form = "else" -> <<"else", ":">>
    [] form = "def" -> <<"def", "sig", ":">>
    [] form = "inline" -> <<"if", "expr", ":", "expr">>
    [] OTHER -> <<"other">>

\* What the parser wants after the keyword of a header, up to its block.
Suite == <<":", "nl", "indent">>
Wanted(word) ==
  CASE word \in {"if", "elif", "while"} -> <<"expr">> \o Suite
    [] word = "def" -> <<"sig">> \o Suite
    [] word = "else" -> Suite

\* A call: of which function, for the statement of which line, how far it is,
\* and the line that owns the block to come.
Frame(kind, line) ==
  [kind |-> kind, line |-> line, owner |-> line, phase |-> "head", want |-> <<>>]

InitModern ==
  /\ lexer = [line |-> 0, start |-> TRUE, ind |-> 0, rest |-> <<>>,
              stack |-> <<>>, pending |-> 0]
  /\ tok = None
  /\ frames = <<Frame("program", 0)>>
  /\ tree = <<>>
  /\ dropped = {}
  /\ nodes = 1
  /\ null = FALSE
  /\ verdict = "parsing"

-----------------------------------------------------------------------------
(* The lexer.                                                              *)

Top(l) == IF l.stack = <<>> THEN 0 ELSE Last(l.stack)
Token(type, l) == [type |-> type, lexer |-> l]

\* The end of the file taken for the end of a line.
InLineForever(l) ==
  CASE Head(l.rest) \in {"eof", "nl"} -> Token("nl", l)
    [] OTHER -> Token(Head(l.rest), [l EXCEPT !.rest = Tail(@)])

\* The rest of a line that has been entered.
InLine(l) ==
  CASE Head(l.rest) = "eof" /\ l.stack # <<>> ->
         Token("dedent", [l EXCEPT !.stack = Front(@)])
    [] Head(l.rest) = "eof" /\ l.stack = <<>> -> Token("eof", l)
    [] Head(l.rest) = "nl" -> Token("nl", [l EXCEPT !.rest = <<>>, !.start = TRUE])
    [] OTHER -> Token(Head(l.rest), [l EXCEPT !.rest = Tail(@)])

Indented(l) ==
  IF Len(l.stack) + 1 >= given.depth THEN Token("error", l)
  ELSE Token("indent", [l EXCEPT !.stack = Append(@, l.ind), !.start = FALSE])

\* All the suites that are left, one of whose DEDENTs is returned at once.
DedentedOnce(l) ==
  Token("dedent", [l EXCEPT !.stack = Front(@), !.start = FALSE])

Dedented(l) ==
  LET kept == SelectSeq(l.stack, LAMBDA i : i <= l.ind)
      left == [l EXCEPT !.stack = kept, !.start = FALSE,
                        !.pending = Len(l.stack) - Len(kept) - 1]
  IN  IF Top(left) # l.ind THEN Token("error", l) ELSE Token("dedent", left)

\* A line that holds nothing, or a comment that a newline ends, is a NEWLINE
\* token wherever it starts; a carriage return makes it a line like any other.
AtLineStart(l, line) ==
  CASE line.form \in {"blank", "comment"} /\ line.nl ->
         Token("nl", [l EXCEPT !.rest = <<>>])
    [] OTHER ->
         IF l.ind > Top(l) THEN Indented(l)
         ELSE IF l.ind < Top(l) THEN Dedented(l)
         ELSE InLine([l EXCEPT !.start = FALSE])

\* The lexer at the start of the next line.
Entered(l, line) ==
  [l EXCEPT !.line = @ + 1,
            !.ind = IF line.form = "comment" THEN 0 ELSE line.ind,
            !.rest = Words(line.form) \o <<IF line.nl THEN "nl" ELSE "eof">>]

\* ast_next: an error token ends the parse.
AstNext(t) ==
  /\ lexer' = t.lexer
  /\ tok' = t.type
  /\ verdict' = IF t.type = "error" THEN "rejected" ELSE verdict
  /\ UNCHANGED <<frames, tree, dropped, nodes, null>>

Lexing == verdict = "parsing" /\ ~given.legacy /\ tok = None

LexPending ==
  /\ Lexing
  /\ lexer.pending > 0
  /\ AstNext(Token("dedent", [lexer EXCEPT !.pending = @ - 1]))
  /\ UNCHANGED source

LexInLine ==
  /\ Lexing
  /\ lexer.pending = 0 /\ ~lexer.start
  /\ AstNext(InLine(lexer))
  /\ UNCHANGED source

LexLine ==
  /\ Lexing
  /\ lexer.pending = 0 /\ lexer.start
  /\ \E line \in Line \cup {EndOfFile} :
       /\ MayFollow(source, line)
       /\ source' = Append(source, line)
       /\ AstNext(AtLineStart(Entered(lexer, line), line))

-----------------------------------------------------------------------------
(* The parser.  Each action is what one of its functions does with a token. *)

Parsing == verdict = "parsing" /\ ~null /\ tok # None
Returning == verdict = "parsing" /\ null /\ tok # None
Frame1 == Last(frames)
With(f) == Append(Front(frames), f)
Blocks == {"program", "block"}

Closing == IF Frame1.kind = "program" THEN {"eof"} ELSE {"dedent"}
Separators == IF Frame1.kind = "program" THEN {"nl", ";"} ELSE {"nl"}
Starting == {"expr", "if", "elif", "while", "def"}

Reject ==
  /\ verdict' = "rejected"
  /\ UNCHANGED <<source, lexer, tok, frames, tree, dropped, nodes, null>>

\* ast_new for n nodes: the first that does not fit is the NULL that all
\* callers return.
Allocate(n) ==
  /\ nodes' = IF nodes + n <= given.limit THEN nodes + n ELSE given.limit
  /\ null' = (nodes + n > given.limit)

\* Statement line i of the tree goes into the innermost block.
Placed(i, branch) ==
  LET block == Last(SelectSeq(frames, LAMBDA f : f.kind \in Blocks))
  IN  [j \in DOMAIN tree \cup {i} |->
         IF j = i THEN [suite |-> block.owner, branch |-> branch] ELSE tree[j]]

\* The loops of ast_parse_program and ast_parse_block, which take newlines
\* between statements, the program semicolons too.
SkipSeparators ==
  /\ Parsing
  /\ Frame1.kind \in Blocks
  /\ tok \in Separators
  /\ frames' = With([Frame1 EXCEPT !.phase = "head"])
  /\ tok' = None
  /\ UNCHANGED <<source, lexer, tree, dropped, nodes, null, verdict>>

\* A simple statement: the expression and its node.
ParseSimple ==
  /\ Parsing
  /\ Frame1.kind \in Blocks /\ Frame1.phase = "head"
  /\ tok = "expr"
  /\ tok' = None
  /\ Allocate(2)
  /\ tree' = IF null' THEN tree ELSE Placed(lexer.line, 0)
  /\ frames' = With([Frame1 EXCEPT !.phase = "tail"])
  /\ UNCHANGED <<source, lexer, dropped, verdict>>

\* if, while and def, and elif, which starts a statement like if.
ParseHeader ==
  /\ Parsing
  /\ Frame1.kind \in Blocks /\ Frame1.phase = "head"
  /\ tok \in {"if", "elif", "while", "def"}
  /\ tok' = None
  /\ Allocate(1)
  /\ tree' = Placed(lexer.line, 0)
  /\ frames' = Append(frames, [Frame(IF tok = "elif" THEN "if" ELSE tok, lexer.line)
                                 EXCEPT !.want = Wanted(tok)])
  /\ UNCHANGED <<source, lexer, dropped, verdict>>

\* elif and else after the block of an if.
ParseElif ==
  /\ Parsing
  /\ Frame1.kind = "if" /\ Frame1.phase = "body"
  /\ tok = "elif"
  /\ tok' = None
  /\ Allocate(1)
  /\ tree' = Placed(lexer.line, Frame1.line)
  /\ frames' = With([Frame1 EXCEPT !.phase = "done"])
                \o <<[Frame("if", lexer.line) EXCEPT !.want = Wanted(tok)]>>
  /\ UNCHANGED <<source, lexer, dropped, verdict>>

ParseElse ==
  /\ Parsing
  /\ Frame1.kind = "if" /\ Frame1.phase = "body"
  /\ tok = "else"
  /\ tok' = None
  /\ tree' = Placed(lexer.line, Frame1.line)
  /\ frames' = With([Frame1 EXCEPT !.phase = "else", !.want = Wanted(tok),
                                   !.owner = lexer.line])
  /\ UNCHANGED <<source, lexer, dropped, nodes, null, verdict>>

\* The rest of a header, one token at a time; the expression is a node.
ParseWanted ==
  /\ Parsing
  /\ Frame1.want # <<>> /\ Head(Frame1.want) = tok
  /\ tok' = None
  /\ Allocate(IF tok = "expr" THEN 1 ELSE 0)
  /\ frames' = With([Frame1 EXCEPT !.want = Tail(@)])
  /\ UNCHANGED <<source, lexer, tree, dropped, verdict>>

\* ast_parse_block begins.
EnterBlock ==
  /\ verdict = "parsing" /\ ~null
  /\ Frame1.kind \notin Blocks /\ Frame1.phase \in {"head", "else"}
  /\ Frame1.want = <<>>
  /\ Allocate(1)
  /\ frames' = With([Frame1 EXCEPT !.phase = IF @ = "else" THEN "done" ELSE "body"])
                \o <<Frame("block", Frame1.owner)>>
  /\ UNCHANGED <<source, lexer, tok, tree, dropped, verdict>>

\* A DEDENT ends the block.
LeaveBlock ==
  /\ Parsing
  /\ Frame1.kind = "block"
  /\ tok = "dedent"
  /\ frames' = Front(frames)
  /\ tok' = None
  /\ UNCHANGED <<source, lexer, tree, dropped, nodes, null, verdict>>

\* A compound statement is complete.  The elif of an if needs one more block.
LeaveHeader ==
  /\ Parsing
  /\ Frame1.kind \notin Blocks
  /\ \/ Frame1.phase = "done"
     \/ Frame1.phase = "body" /\ (Frame1.kind = "if" => tok \notin {"elif", "else"})
  /\ LET outer == frames[Len(frames) - 1]
     IN  IF outer.kind \in Blocks
         THEN /\ frames' = Append(SubSeq(frames, 1, Len(frames) - 2),
                                  [outer EXCEPT !.phase = "head"])
              /\ UNCHANGED <<nodes, null>>
         ELSE /\ frames' = Front(frames)
              /\ Allocate(1)
  /\ UNCHANGED <<source, lexer, tok, tree, dropped, verdict>>

\* Tokens that fit nowhere.
ParseError ==
  /\ Parsing
  /\ \/ /\ Frame1.want # <<>>
        /\ Head(Frame1.want) # tok
     \/ /\ Frame1.kind \in Blocks /\ Frame1.phase = "tail"
        /\ tok \notin Closing \cup Separators
     \/ /\ Frame1.kind \in Blocks /\ Frame1.phase = "head"
        /\ tok \notin Closing \cup Separators \cup Starting
  /\ Reject

\* The end of the file in ast_parse_program.
ParseEnd ==
  /\ Parsing
  /\ Frame1.kind = "program"
  /\ tok = "eof"
  /\ verdict' = "parsed"
  /\ UNCHANGED <<source, lexer, tok, frames, tree, dropped, nodes, null>>

\* A NULL goes up to the program, which stops as if the file had ended, or to
\* a while or a def, whose body it becomes.
BodyIgnored(f) == f.kind \in {"while", "def"} /\ f.phase = "body"

\* What is linked to nothing any more once the call f has returned NULL.
DroppedBy(f) ==
  IF f.kind = "block" THEN {i \in DOMAIN tree : tree[i].suite = f.owner}
  ELSE {f.line}

ReturnNull ==
  /\ Returning
  /\ Frame1.kind # "program"
  /\ IF BodyIgnored(Frame1) THEN /\ null' = FALSE
                                 /\ UNCHANGED <<frames, dropped>>
     ELSE /\ frames' = Front(frames)
          /\ dropped' = dropped \cup DroppedBy(Frame1)
          /\ UNCHANGED null
  /\ UNCHANGED <<source, lexer, tok, tree, nodes, verdict>>

StopAtNull ==
  /\ Returning
  /\ Frame1.kind = "program"
  /\ verdict' = "parsed"
  /\ UNCHANGED <<source, lexer, tok, frames, tree, dropped, nodes, null>>

-----------------------------------------------------------------------------
(* From the tree to C.                                                     *)

\* Statement i, the headers around it and the branches they continue.
UpFrom ==
  LET up[i \in {0} \cup DOMAIN tree] ==
        IF i = 0 THEN {}
        ELSE {i} \cup up[tree[i].suite] \cup up[tree[i].branch]
  IN  up

Linked == {i \in DOMAIN tree : UpFrom[i] \cap dropped = {}}

\* ast_cgen_requires_legacy_stmt walks the whole tree.
NeedsLegacy == \E i \in Linked : source[i].form = "dynamic"

\* ast_emit_c_source emits the functions of the module, then the module, and
\* ast_cgen_block passes over every function it meets.
Emitted ==
  {i \in Linked :
     \A d \in UpFrom[i] : source[d].form = "def" => tree[d].suite = 0}

Generate ==
  /\ verdict = "parsed"
  /\ verdict' = IF NeedsLegacy THEN "delegated" ELSE "emitted"
  /\ UNCHANGED <<source, lexer, tok, frames, tree, dropped, nodes, null>>

NextModern ==
  \/ LexPending \/ LexInLine \/ LexLine
  \/ SkipSeparators \/ ParseSimple \/ ParseHeader \/ ParseElif \/ ParseElse
  \/ ParseWanted \/ EnterBlock \/ LeaveBlock \/ LeaveHeader
  \/ ParseError \/ ParseEnd
  \/ ReturnNull \/ StopAtNull
  \/ Generate
=============================================================================
