------------------------------ MODULE McpResults -------------------------------
(* The MCP server around the API client and the companion CLI: which commands *)
(* become tools with which parameters, the command line a call turns into,    *)
(* and how an answer is made to fit the budget of a result.  Each operator is *)
(* one pure function; text is reduced to its length, a JSON list to the       *)
(* lengths of its items, a parameter or an argument to what is decided by it. *)
EXTENDS Integers, Sequences, SequencesExt, FiniteSetsExt

CONSTANTS
    MaxBytes,      \* the budget of a result
    MaxItems,      \* the most items of a list in one
    PreviewBytes,  \* the longest preview, its envelope and escapes included
    HeadBytes,     \* the envelope that counts a list, around it
    NoteBytes,     \* what is said of a list that is cut
    Names,         \* names of flags and positionals
    RootOnly       \* blockedRootFlags: flags of the root command not for a caller

ASSUME McpAssumption ==
    /\ MaxBytes \in Nat /\ MaxItems \in Nat /\ RootOnly \subseteq Names /\ "args" \in Names
    /\ HeadBytes \in Nat /\ NoteBytes \in Nat
    /\ HeadBytes + 2 + NoteBytes <= MaxBytes /\ PreviewBytes <= MaxBytes

--------------------------------------------------------------------------------
(* Results.  A value: raw and indented are its lengths as received and as     *)
(* printed, lists its array fields (an array's only list is itself), rest the *)
(* length of everything else.                                                 *)

ListBytes(items) == 2 + FoldLeft(LAMBDA a, b : a + b, 0, items)
                      + (IF items = <<>> THEN 0 ELSE Len(items) - 1)

(* The envelope of the first n items: a list that is cut is said to be.       *)
EnvelopeBytes(items, rest, n) ==
    rest + ListBytes(SubSeq(items, 1, n)) + (IF n < Len(items) THEN NoteBytes ELSE 0)

(* fitJSONItems: the most items that fit, tried from the most; else none.     *)
Kept(items, rest) ==
    Max({0} \cup {n \in 1 .. Min({Len(items), MaxItems}) : EnvelopeBytes(items, rest, n) <= MaxBytes})

Listed(items, rest) ==
    [kind |-> "list", kept |-> Kept(items, rest), total |-> Len(items),
     bytes |-> EnvelopeBytes(items, rest, Kept(items, rest))]
Whole(bytes) == [kind |-> "whole", kept |-> 0, total |-> 0, bytes |-> bytes]
Preview      == [kind |-> "preview", kept |-> 0, total |-> 0, bytes |-> PreviewBytes]

(* boundedSingleArrayObject: exactly one list, and the rest leaves room.      *)
ObjectOrPreview(v) ==
    IF v.kind = "object" /\ Len(v.lists) = 1 /\ Listed(v.lists[1], v.rest).bytes <= MaxBytes
    THEN Listed(v.lists[1], v.rest) ELSE Preview

EndpointResponse(method, v) ==
    IF method = "GET" /\ v.kind = "array" THEN Listed(v.lists[1], HeadBytes)
    ELSE IF v.raw <= MaxBytes THEN Whole(v.raw)
    ELSE IF method = "GET" THEN ObjectOrPreview(v) ELSE Preview

JSON(v) ==
    IF v.indented <= MaxBytes THEN Whole(v.indented)
    ELSE IF v.raw <= MaxBytes THEN Whole(v.raw)
    ELSE IF v.kind = "array" THEN Listed(v.lists[1], HeadBytes)
    ELSE ObjectOrPreview(v)

Text(bytes) == IF bytes <= MaxBytes THEN Whole(bytes) ELSE Preview

(* The rows of a query go with the list of their columns.                     *)
SqlEnvelope(columns, rows, rest, indent) ==
    LET raw == rest + ListBytes(columns) + ListBytes(rows)
    IN  [kind |-> "object", lists |-> <<columns, rows>>, rest |-> rest, raw |-> raw,
         indented |-> raw + indent]

(* An error of the client is told by the statuses its text names: its own,    *)
(* and any the body quotes.                                                   *)
ErrorResult(method, named) ==
    LET told == SelectSeq(<<409, 401, 403, 404, 429>>, LAMBDA status : status \in named)
    IN  IF told = <<>> THEN "error"
        ELSE CASE told[1] = 409 -> "exists"
               [] told[1] = 401 -> "authentication"
               [] told[1] = 403 -> "permission"
               [] told[1] = 404 -> IF method = "DELETE" THEN "deleted" ELSE "not found"
               [] told[1] = 429 -> "limited"
NoOps == {"exists", "deleted"}

(* The child's output, of which one byte more than the budget is kept.        *)
Captured(bytes) == Min({bytes, MaxBytes + 1})

(* RunCLICommand and what its caller returns: output of a command that worked *)
(* is its stdout; one that failed shows stderr, or stdout in its absence.     *)
ShellResult(failed, stdout, stderr, wrap) ==
    LET said == IF stderr > 0 THEN stderr ELSE stdout IN
    IF ~failed THEN [error |-> FALSE, result |-> Text(Captured(stdout))]
    ELSE [error |-> TRUE,
          result |-> Text(wrap + (IF said = 0 THEN 0 ELSE Text(Captured(said)).bytes))]

--------------------------------------------------------------------------------
(* Tools.  A command: its visible flags, own and inherited, hidden ones of    *)
(* either sort, the names of its positionals, and whether it takes arguments. *)

Blocked(c) == {"args"} \cup ((c.inherited \cap RootOnly) \ c.own)

(* A positional that is called like a flag gets a name of its own.            *)
InputName(c, n) ==
    IF n \in {"args"} \cup c.own \cup c.hidden \cup (c.inherited \ Blocked(c))
    THEN <<"positional", n>> ELSE <<"plain", n>>
Inputs(c) == {InputName(c, c.positionals[i]) : i \in DOMAIN c.positionals}

RawField == <<"plain", "args">>
FlagNames(c) == {<<"plain", n>> : n \in (c.own \cup c.inherited) \ Blocked(c)}

(* The parameters in the tool's schema, those a call may have, and those that *)
(* become flags.                                                              *)
Offered(c) == FlagNames(c) \cup Inputs(c)
              \cup {r \in {RawField} : c.takesArgs /\ c.positionals = <<>>}
Allowed(c) == FlagNames(c) \cup Inputs(c) \cup {r \in {RawField} : c.takesArgs}
AsFlags(c, given) == given \ (Inputs(c) \cup {<<"plain", n>> : n \in Blocked(c)})

(* cliArgsFromMCP: the values that put the flag on the command line.          *)
FlagIsSet(value) == value \notin {"false", "empty", "no items", "null"}

(* RegisterAll: hidden and framework commands take their subtree with them;   *)
(* only the first of two commands of one tool name is registered.  A path is  *)
(* a sequence of nodes, the top-level command first.                          *)
Skipped(node, depth) == node.hidden \/ (~node.endpoint /\ node.framework /\ depth = 1)
Mirrored(path) ==
    /\ \A d \in DOMAIN path : ~Skipped(path[d], d)
    /\ LET node == path[Len(path)] IN ~node.endpoint /\ node.runnable
Hints(node) ==
    [readOnly |-> node.readOnly, destructive |-> ~node.readOnly /\ ~node.localWrite]

--------------------------------------------------------------------------------
(* Positional arguments: slots[i] is what a call gives the i-th parameter:    *)
(* "missing", "blank", "word", "dash" (a lone -) or "flag" (- and more).      *)

GivenSlots(slots) == {i \in DOMAIN slots : slots[i] \notin {"missing", "blank"}}

(* A sink is a position whose argument names a file to write.                 *)
IntoSink(token, position, readOnly, sinks) ==
    readOnly /\ position \in sinks /\ token \notin {"dash", "blank"}

SlotsRefused(slots, readOnly, sinks) ==
    \E i \in GivenSlots(slots) :
        \/ \E h \in 1 .. i - 1 : h \notin GivenSlots(slots)
        \/ slots[i] = "flag"
        \/ IntoSink(slots[i], i, readOnly, sinks)

SlotArgs(slots) == SubSeq(slots, 1, Cardinality(GivenSlots(slots)))

(* The args field, as its words: one argument for a command with one          *)
(* positional, else split; a quoted word may be blank, one of no characters   *)
(* ("empty") is lost in splitting.                                            *)
RawArgs(raw, slots) ==
    IF raw = <<>> THEN <<>>
    ELSE IF Len(slots) = 1 /\ GivenSlots(slots) = {}
         THEN IF Len(raw) = 1 THEN <<IF raw[1] \in {"empty", "blank"} THEN "word" ELSE raw[1]>>
              ELSE <<IF raw[1] \in {"dash", "flag"} THEN "flag" ELSE "word">>
    ELSE SelectSeq(raw, LAMBDA t : t # "empty")

RawRefused(tokens, offset, readOnly, sinks) ==
    \E i \in DOMAIN tokens :
        tokens[i] = "flag" \/ IntoSink(tokens[i], offset + i, readOnly, sinks)

(* The arguments the companion CLI is run with, after the flags.              *)
CommandLine(slots, raw, readOnly, sinks) ==
    LET first == SlotArgs(slots)
        more  == RawArgs(raw, slots)
    IN  IF \/ SlotsRefused(slots, readOnly, sinks)
           \/ RawRefused(more, Len(first), readOnly, sinks)
        THEN [refused |-> TRUE, args |-> <<>>]
        ELSE [refused |-> FALSE, args |-> first \o more]
=================================================================================
