------------------------------ MODULE MCHttpClient ------------------------------
(* Instances of HttpClient for TLC, and the answers of the MCP server, which  *)
(* makes its calls: pure functions, checked over bounded inputs.              *)
EXTENDS HttpClient, McpResults, TLC

MCSymmetry == Permutations(Calls)

--------------------------------------------------------------------------------
(* Values: an array, an object of up to two lists, text.  raw may exceed what *)
(* the parts come to, by blanks, or fall short of it, by escapes.             *)

MCItems   == BoundedSeq({1, 3}, 4)
MCLists   == {<<items>> : items \in MCItems}
MCMethods == {"GET", "POST", "DELETE"}
MCValue(k, lists, rest, raw) ==
    [kind |-> k, lists |-> lists, rest |-> rest, raw |-> raw, indented |-> raw + 4]
MCValues ==
    {MCValue("array", l, 0, raw) : l \in MCLists, raw \in {4, 20}}
    \cup {MCValue("object", l, rest, raw) :
             l \in MCLists \cup {<<>>, <<<<1>>, <<3, 3>>>>}, rest \in {3, 9, 30}, raw \in {4, 12, 40}}
    \cup {MCValue("other", <<>>, raw, raw) : raw \in {4, 12, 40}}

(* No result exceeds the budget, whatever the provider or the child says.     *)
ASSUME EveryResultFits ==
    /\ \A v \in MCValues : /\ JSON(v).bytes <= MaxBytes
                           /\ \A m \in MCMethods : EndpointResponse(m, v).bytes <= MaxBytes
    /\ \A failed \in BOOLEAN, out, err \in {0, 5, 14, 15, 99}, wrap \in {3, 30} :
           ShellResult(failed, out, err, wrap).result.bytes <= MaxBytes

(* A list is cut only for the budget or the most items, and no further; its   *)
(* full length is told.                                                       *)
ASSUME ListsAreCutNoFurther ==
    \A v \in MCValues, m \in MCMethods : \A r \in {JSON(v), EndpointResponse(m, v)} :
        r.kind = "list" =>
            LET items == v.lists[1]
                rest  == IF v.kind = "array" THEN HeadBytes ELSE v.rest
            IN  /\ r.total = Len(items)
                /\ \A n \in r.kept + 1 .. Len(items) :
                       n > MaxItems \/ EnvelopeBytes(items, rest, n) > MaxBytes

(* The rows of a query stand beside the list of its columns, so that a result *)
(* over the budget is never a shorter list, only a preview.                   *)
ASSUME RowsAreNeverCut ==
    \A columns, rows \in MCItems, indent \in {0, 9} :
        LET v == SqlEnvelope(columns, rows, 3, indent)
        IN  JSON(v).kind = IF v.raw <= MaxBytes THEN "whole" ELSE "preview"

(* What is kept of a child's output decides alike on whole or preview.        *)
ASSUME CaptureDecides == \A n \in 0 .. 3 * MaxBytes : Text(Captured(n)) = Text(n)

(* Only a conflict, or a deletion of what is gone, counts as done already;    *)
(* but a body that quotes a conflict makes any error one.                     *)
ASSUME NoOpsAreTold ==
    \A method \in MCMethods, status \in {400, 401, 403, 404, 409, 429, 500} :
        /\ ErrorResult(method, {status}) \in NoOps
              <=> (status = 409 \/ (status = 404 /\ method = "DELETE"))
        /\ ErrorResult(method, {status, 409}) = "exists"

--------------------------------------------------------------------------------
(* Commands: every way to spread the names over flags and positionals.        *)

MCPositionals == {s \in BoundedSeq(Names, 2) : Len(s) = 2 => s[1] # s[2]}
MCCommands ==
    {c \in [own : SUBSET Names, inherited : SUBSET Names, hidden : SUBSET Names,
            positionals : MCPositionals, takesArgs : BOOLEAN] :
        /\ c.own \cap c.hidden = {}
        /\ c.positionals # <<>> => c.takesArgs}

(* A parameter the schema offers is accepted and reaches the command, as a    *)
(* flag or as a positional and never as both, though the names collide; a     *)
(* flag of the root command that is not for callers never does.               *)
ASSUME OfferedReachesCommand ==
    \A c \in MCCommands :
        /\ \A p \in Offered(c) \ {RawField} :
              p \in Allowed(c) /\ (p \in Inputs(c) <=> AsFlags(c, {p}) = {})
        /\ Offered(c) \subseteq Allowed(c) /\ FlagNames(c) \cap Inputs(c) = {}
        /\ \A n \in c.own \ {"args"} : <<"plain", n>> \in FlagNames(c)
        /\ \A n \in RootOnly \ c.own : <<"plain", n>> \notin AsFlags(c, Allowed(c))
        /\ Cardinality(Inputs(c)) = Len(c.positionals)

(* A command below a hidden one or a framework one is no tool; an endpoint is *)
(* none either, but the commands below it are.                                *)
ASSUME SubtreesAreSkipped ==
    LET Node(h, e, f) == [hidden |-> h, endpoint |-> e, framework |-> f, runnable |-> TRUE,
                          readOnly |-> TRUE, localWrite |-> TRUE]
        plain == Node(FALSE, FALSE, FALSE)
    IN  /\ Mirrored(<<plain>>) /\ Mirrored(<<plain, plain>>)
        /\ ~Mirrored(<<Node(TRUE, FALSE, FALSE), plain>>)
        /\ ~Mirrored(<<Node(FALSE, FALSE, TRUE), plain>>)
        /\ Mirrored(<<plain, Node(FALSE, FALSE, TRUE)>>)
        /\ ~Mirrored(<<Node(FALSE, TRUE, FALSE)>>) /\ Mirrored(<<Node(FALSE, TRUE, FALSE), plain>>)
        /\ Hints(plain) = [readOnly |-> TRUE, destructive |-> FALSE]

MCTokens == {"word", "blank", "dash", "flag"}
MCSlots  == BoundedSeq(MCTokens \cup {"missing"}, 3)

(* An accepted call hands every structured argument to the position it is     *)
(* named for and the raw ones to the positions after; none of them is a flag, *)
(* and a read-only tool writes to no file.                                    *)
ASSUME PositionalsKeepTheirSlots ==
    \A slots \in MCSlots, raw \in BoundedSeq(MCTokens, 2), readOnly \in BOOLEAN,
       sinks \in SUBSET {1, 2} :
        LET c == CommandLine(slots, raw, readOnly, sinks)
            n == Cardinality(GivenSlots(slots))
        IN  ~c.refused =>
               /\ \A i \in GivenSlots(slots) : i <= n /\ c.args[i] = slots[i]
               /\ n > 0 => SubSeq(c.args, n + 1, Len(c.args)) = raw
               /\ \A i \in DOMAIN c.args :
                     c.args[i] # "flag" /\ ~IntoSink(c.args[i], i, readOnly, sinks)

(* A quoted argument of no characters is lost, and the next takes its place.  *)
ASSUME EmptyArgumentIsLost ==
    CommandLine(<<"missing", "missing">>, <<"empty", "word">>, FALSE, {}).args = <<"word">>
=================================================================================
