---------------------------- MODULE ScrapeService ----------------------------
(***************************************************************************)
(* What the exporter promises to a scrape, without saying how it is done.  *)
(* The caches are entries whose values change at any time.  One scrape at  *)
(* a time is served; it answers, for each rule, with what it read in every *)
(* entry that the rule lists, each a value that the entry had between the  *)
(* beginning of the scrape and its end, not all of them at one moment.     *)
(* Collector implements it.                                                *)
(***************************************************************************)
EXTENDS Naturals, Sequences

CONSTANTS
    Scrapers,
    Nobody,
    RuleIndex,
    Entries,   \* the entries of all caches
    Reads,     \* [RuleIndex -> [reads -> Entries]], what listing its anchors reads:
               \*   an entry may be read more than once
    Yields,    \* [RuleIndex -> set of objects], the anchors that give any series
    Dynamic,   \* the rules with expandLabels, which may send nothing at all
    Absent

VARIABLES
    history,   \* [Entries -> Seq], the values that each entry has gone through
    turn,      \* the scrape that is being served, or Nobody
    phase,
    since,     \* [Scrapers -> [Entries -> Nat]], how far the histories were
    answer     \* [Scrapers -> [RuleIndex -> set of anchors]]

vars == <<history, turn, phase, since, answer>>

NoAnswer == [r \in RuleIndex |-> {}]

Init ==
    /\ history = [c \in Entries |-> <<>>]
    /\ turn = Nobody
    /\ phase = [s \in Scrapers |-> "idle"]
    /\ since = [s \in Scrapers |-> [c \in Entries |-> 0]]
    /\ answer = [s \in Scrapers |-> NoAnswer]

\* Each entry goes through further values; none is forgotten.
CachesMove ==
    /\ \A c \in Entries :
          /\ Len(history[c]) <= Len(history'[c])
          /\ \A i \in 1..Len(history[c]) : history'[c][i] = history[c][i]
    /\ UNCHANGED <<turn, phase, since, answer>>

Call(s) ==
    /\ phase[s] = "idle"
    /\ phase' = [phase EXCEPT ![s] = "waiting"]
    /\ UNCHANGED <<history, turn, since, answer>>

Begin(s) ==
    /\ phase[s] = "waiting"
    /\ turn = Nobody
    /\ turn' = s
    /\ phase' = [phase EXCEPT ![s] = "collecting"]
    /\ since' = [since EXCEPT ![s] = [c \in Entries |-> Len(history[c])]]
    /\ UNCHANGED <<history, answer>>

\* The value after the first i of an entry's history.
ValueAt(c, i) == IF i = 0 THEN Absent ELSE history[c][i]

\* Every value that the entry has had since the scrape began.
HeldSince(s, c) == {ValueAt(c, i) : i \in since[s][c]..Len(history[c])}

\* Each anchor was read in an entry, another one for each; and at the reading of
\* any other entry there was nothing there that is not among the anchors.
MayAnswer(s, r, anchors) ==
    \/ r \in Dynamic /\ anchors = {}
    \/ /\ anchors \subseteq Yields[r]
       /\ \E at \in [anchors -> DOMAIN Reads[r]] :
             /\ \A a, b \in anchors : at[a] = at[b] => a = b
             /\ \A a \in anchors : a \in HeldSince(s, Reads[r][at[a]])
             /\ \A x \in DOMAIN Reads[r] :
                   (\A a \in anchors : at[a] # x) =>
                      \E v \in HeldSince(s, Reads[r][x]) : v \in Yields[r] => v \in anchors

Finish(s) ==
    /\ phase[s] = "collecting"
    /\ turn = s
    /\ turn' = Nobody
    /\ phase' = [phase EXCEPT ![s] = "collected"]
    /\ \A r \in RuleIndex : MayAnswer(s, r, answer'[s][r])
    /\ answer' = [answer EXCEPT ![s] = answer'[s]]
    /\ UNCHANGED <<history, since>>

Respond(s) ==
    /\ phase[s] = "collected"
    /\ phase' = [phase EXCEPT ![s] = "idle"]
    /\ since' = [since EXCEPT ![s] = [c \in Entries |-> 0]]
    /\ answer' = [answer EXCEPT ![s] = NoAnswer]
    /\ UNCHANGED <<history, turn>>

Next ==
    \/ CachesMove
    \/ \E s \in Scrapers : Call(s) \/ Begin(s) \/ Finish(s) \/ Respond(s)

Spec == Init /\ [][Next]_vars
=============================================================================
