------------------------------ MODULE Evaluator ------------------------------
(***************************************************************************)
(* collector.Evaluator: how one series gets its label values.  An input    *)
(* (an object of the owner chain, or an item of the rule's forEach) is     *)
(* abstracted to                                                           *)
(*   data : [Paths -> STRING], what each compiled path first finds in it,  *)
(*          "" when it finds nothing, nil or only empty strings            *)
(*   maps : [Paths -> [subset of Nat -> STRING]], the map an expandLabels  *)
(*          path resolves to; a key stands for its rank in sort.Strings    *)
(*          order and the value is what stringifyValue makes of it.        *)
(* Extraction shows how the values that encoding/json decodes give both.   *)
(***************************************************************************)
EXTENDS Naturals, Sequences, FiniteSetsExt

Empty == ""

\* tryExtract on a missing input (nil) and on a present one.
TryExtract(extract, input, nil) ==
    IF input[extract.source] = nil THEN Empty
    ELSE input[extract.source].data[extract.path]

\* The primary extract and then the fallbacks, in order, then onMissing.
EvaluateLabel(label, input, nil) ==
    LET hits == {i \in 1..Len(label.extracts) :
                    TryExtract(label.extracts[i], input, nil) # Empty}
    IN  IF hits = {} THEN label.onMissing
        ELSE TryExtract(label.extracts[Min(hits)], input, nil)

\* Mutant: one key too many.
MutantFirstKeys(keys, maxKeys) ==
    {k \in keys : maxKeys = 0 \/ Cardinality({j \in keys : j < k}) <= maxKeys}

\* maxKeys keeps the first ones; 0 is no limit.
FirstKeys(keys, maxKeys) ==
    {k \in keys : maxKeys = 0 \/ Cardinality({j \in keys : j < k}) < maxKeys}

\* The keys of the map an expandLabels entry lets through, before values are
\* looked at: deny wins over allow, and then maxKeys cuts.
ExpandKeys(expand, map) ==
    FirstKeys({k \in DOMAIN map : /\ k \notin expand.deny
                                  /\ expand.allow = {} \/ k \in expand.allow},
              expand.maxKeys)

(***************************************************************************)
(* EvaluateExpand: label names to values.  expand.labelName is prefix +    *)
(* sanitizeLabelKey; two keys may sanitise to one name, and the later key  *)
(* overwrites the earlier one.                                             *)
(***************************************************************************)
EvaluateExpand(expand, input, nil) ==
    LET map    == IF input[expand.source] = nil THEN <<>> ELSE input[expand.source].maps[expand.path]
        valued == {k \in ExpandKeys(expand, map) : map[k] # Empty}
    IN  [label \in {expand.labelName[k] : k \in valued} |->
            map[Max({k \in valued : expand.labelName[k] = label})]]

\* One series of a rule (evaluateOneSeries): the fixed labels, and the dynamic
\* ones of every expandLabels entry, a later entry overwriting an earlier one.
EvaluateOneSeries(rule, input, nil) ==
    LET out(i) == EvaluateExpand(rule.expands[i], input, nil)
        giving(label) == {i \in 1..Len(rule.expands) : label \in DOMAIN out(i)}
    IN  [fixed   |-> [label \in DOMAIN rule.labels |->
                        EvaluateLabel(rule.labels[label], input, nil)],
         dynamic |-> [label \in UNION {DOMAIN out(i) : i \in 1..Len(rule.expands)} |->
                        out(Max(giving(label)))[label]]]

\* EvaluateForEach: a rule without forEach has one nil item per anchor.
EvaluateForEach(rule, anchor, nil) ==
    IF rule.forEach THEN anchor.items ELSE <<nil>>
=============================================================================
