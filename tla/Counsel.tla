------------------------------- MODULE Counsel -------------------------------
(***************************************************************************)
(* The legal counsel (app/integrations/legal, on the retrieval and the     *)
(* model call of app/integrations/expert).  The statutes, contracts and    *)
(* bylaws are files; they are read once into a corpus, of which an index   *)
(* is built; a question is answered by a model from passages of the index, *)
(* and every article the answer cites is then looked up in the corpus and  *)
(* struck out unless a loaded statute has it.                              *)
(*                                                                         *)
(* A text is a sequence of tokens: an article's number, a law's name, or   *)
(* marks, which are gone once the text is normalised.                      *)
(***************************************************************************)
EXTENDS Naturals, Sequences, FiniteSets, SequencesExt

CONSTANTS
    Slots,        \* the names of the files, in their order
    Files,        \* what may be in one: [slug, tier, articles]
    Locked,       \* a file that is there and cannot be read
    Missing,      \* no file
    Aliases,      \* _ALIASES: a sequence of [alias, law]
    Texts,        \* what a model may answer
    Questions,    \* the law each question is about
    AHEAD, BEHIND,   \* the windows around an article, in tokens
    TopK, PerSection,
    NotLoaded,
    MaxFileChanges    \* bound: changes of the files

VARIABLES
    disk,       \* corpus/legal
    corpus,     \* _SOURCES and _CHUNKS: the files as they were read, or NotLoaded
    index,      \* _INDEX: the files it was built of, or NotLoaded
    ask,        \* a question on its way
    failed,     \* a reindex failed after the last one that did not: history
    refiled

counselVars == <<disk, corpus, index, ask, failed, refiled>>

Nobody == [at |-> "none", question |-> "none", sources |-> {}, raw |-> <<>>, text |-> <<>>,
           judged |-> <<>>]

Init ==
    /\ disk \in [DOMAIN Slots -> Files \cup {Missing}]
    /\ corpus = NotLoaded /\ index = NotLoaded
    /\ ask = Nobody
    /\ failed = FALSE
    /\ refiled = 0

-----------------------------------------------------------------------------
(* The corpus and the index.                                               *)

TIERS == {"statute", "precedent", "internal", "template"}

\* Whatever does not say what it is counts as a statute.
Tier(file) == IF file.tier \in TIERS THEN file.tier ELSE "statute"

Readable == \A s \in DOMAIN Slots : disk[s] # Locked
Read == SelectSeq([s \in DOMAIN Slots |-> disk[s]], LAMBDA f : f # Missing)

\* What load() leaves: the cached corpus, or the files as they are.
Loaded == IF corpus = NotLoaded THEN Read ELSE corpus
LoadWorks == corpus # NotLoaded \/ Readable

loaded_slugs(files) == {f.slug : f \in ToSet(files)}

statute_articles(files) ==
    UNION {{[law |-> f.slug, number |-> n] : n \in f.articles} : f \in {g \in ToSet(files) : Tier(g) = "statute"}}

\* A statute's passages are its articles, any other file's its blocks.
Passages(file) == [i \in 1 .. (IF Tier(file) = "statute" THEN Cardinality(file.articles) ELSE 1) |->
                     [section |-> file.slug, part |-> i]]
Chunks(files) == FlattenSeq([i \in DOMAIN files |-> Passages(files[i])])

\* _spread: at most so many of one section, and of all.
Spread(scored, most, perSection) ==
    LET Step(out, hit) ==
            IF Len(out) >= most \/ Cardinality({i \in DOMAIN out : out[i].section = hit.section}) >= perSection
            THEN out ELSE Append(out, hit)
    IN  FoldLeft(Step, <<>>, scored)

\* The passages that have a word of the question.
Search(files, question) ==
    Spread(SelectSeq(Chunks(files), LAMBDA c : c.section = question), TopK, PerSection)

-----------------------------------------------------------------------------
(* The guard.                                                              *)

Article(n) == [kind |-> "article", number |-> n, names |-> {}]
Law(names) == [kind |-> "law", number |-> 0, names |-> names]
Marks == [kind |-> "marks", number |-> 0, names |-> {}]
Struck == [kind |-> "struck", number |-> 0, names |-> {}]

\* A law is written by one of its names, and nothing else is.
Tokens == [kind : {"article", "law", "marks"}, number : Nat, names : SUBSET STRING]
Naming(token) == {j \in DOMAIN Aliases : Aliases[j].alias \in token.names}
WellWritten(text) == \A p \in DOMAIN text : /\ text[p].kind = "law" <=> Naming(text[p]) # {}
                                            /\ text[p].kind = "marks" => text[p] = Marks
TextsAssumption ==
    /\ Aliases \in Seq([alias : STRING, law : STRING \ {""}])
    /\ AHEAD \in Nat /\ BEHIND \in Nat
    /\ Texts \subseteq Seq(Tokens) /\ \A text \in Texts : WellWritten(text)

normalize(text) ==
    LET kept[n \in 0 .. Len(text)] == IF n = 0 THEN <<>>
                                      ELSE IF text[n].kind = "marks" THEN kept[n - 1]
                                      ELSE Append(kept[n - 1], text[n])
    IN  kept[Len(text)]

Window(norm, first, last) == SubSeq(norm, IF first < 1 THEN 1 ELSE first, IF last > Len(norm) THEN Len(norm) ELSE last)
Least(S) == CHOOSE n \in S : \A m \in S : n <= m
Greatest(S) == CHOOSE n \in S : \A m \in S : n >= m
Called(window, j) == {p \in DOMAIN window : Aliases[j].alias \in window[p].names}
Somewhere(window) == {j \in DOMAIN Aliases : Called(window, j) # {}}

\* _law_at: of the laws named ahead the first one in the list, else the one named last before; of
\* two names at one place the first in the list.  The place is counted in the text as written, the
\* windows are cut from the normalised one.
LawAt(norm, pos) ==
    LET ahead == Window(norm, pos + 1, pos + AHEAD)
        behind == Window(norm, pos - BEHIND, pos - 1)
        nearest == {j \in Somewhere(behind) : \A k \in Somewhere(behind) :
                       Greatest(Called(behind, j)) >= Greatest(Called(behind, k))}
    IN  IF Somewhere(ahead) # {} THEN Aliases[Least(Somewhere(ahead))].law
        ELSE IF nearest # {} THEN Aliases[Least(nearest)].law
        ELSE ""

ArticlesOf(text) == {p \in DOMAIN text : text[p].kind = "article"}

\* find, of the article at a place.
VerdictAt(files, text, p) ==
    LET law == LawAt(normalize(text), p)
    IN  IF law = "" \/ law \notin loaded_slugs(files) THEN "unverifiable"
        ELSE IF [law |-> law, number |-> text[p].number] \in statute_articles(files) THEN "confirmed"
        ELSE "fabricated"

redact(files, text) ==
    [p \in DOMAIN text |-> IF p \in ArticlesOf(text) /\ VerdictAt(files, text, p) # "confirmed"
                           THEN Struck ELSE text[p]]

-----------------------------------------------------------------------------
(* The steps.                                                              *)

FileChanges(s) ==
    /\ refiled < MaxFileChanges /\ refiled' = refiled + 1
    /\ \E f \in (Files \cup {Missing, Locked}) \ {disk[s]} : disk' = [disk EXCEPT ![s] = f]
    /\ UNCHANGED <<corpus, index, ask, failed>>

\* POST /ask and /review: the index is built when there is none; without a passage or a model
\* there is no answer.  A corpus that cannot be read ends the call.
Ask ==
    /\ ask = Nobody
    /\ index # NotLoaded \/ LoadWorks
    /\ \E q \in Questions :
          LET from == IF index = NotLoaded THEN Loaded ELSE index
              hits == Search(from, q)
          IN  /\ index' = from
              /\ corpus' = IF index = NotLoaded THEN Loaded ELSE corpus
              /\ ask' = [Nobody EXCEPT !.at = IF hits = <<>> THEN "answered" ELSE "model",
                                       !.question = q, !.sources = ToSet(hits)]
    /\ UNCHANGED <<disk, failed, refiled>>

\* The guard looks where the passages came from.
ModelAnswersItsIndex ==
    /\ ask.at = "model" /\ LoadWorks /\ index # NotLoaded
    /\ \E text \in Texts : ask' = [ask EXCEPT !.at = "answered", !.raw = text, !.text = redact(index, text),
                                          !.judged = Loaded]
    /\ corpus' = Loaded
    /\ UNCHANGED <<disk, index, failed, refiled>>

\* The model answers; its answer is guarded by the corpus as it is by then.
ModelAnswers ==
    /\ ask.at = "model" /\ LoadWorks
    /\ \E text \in Texts : ask' = [ask EXCEPT !.at = "answered", !.raw = text, !.text = redact(Loaded, text),
                                          !.judged = Loaded]
    /\ corpus' = Loaded
    /\ UNCHANGED <<disk, index, failed, refiled>>

\* The model cannot be reached, or the corpus cannot be read when its answer comes.
ModelFails ==
    /\ ask.at = "model"
    /\ ask' = [ask EXCEPT !.at = "answered"]
    /\ UNCHANGED <<disk, corpus, index, failed, refiled>>

Return ==
    /\ ask.at = "answered"
    /\ ask' = Nobody
    /\ UNCHANGED <<disk, corpus, index, failed, refiled>>

\* GET /coverage, /law and POST /verify, /draft read the corpus.
Look ==
    /\ corpus = NotLoaded /\ Readable
    /\ corpus' = Read
    /\ UNCHANGED <<disk, index, ask, failed, refiled>>

\* corpus.reset drops what was read before it reads again, and the index goes only after that.
Reindex ==
    /\ IF Readable THEN corpus' = Read /\ index' = NotLoaded /\ failed' = FALSE
       ELSE corpus' = NotLoaded /\ failed' = TRUE /\ UNCHANGED index
    /\ UNCHANGED <<disk, ask, refiled>>

Next == Ask \/ ModelAnswers \/ ModelFails \/ Return \/ Look \/ Reindex \/ \E s \in DOMAIN Slots : FileChanges(s)

-----------------------------------------------------------------------------
(* Properties.                                                             *)

\* The law a name stands for: that of its longest alias, which comes first in the list.
NamedBy(token) == Aliases[Least(Naming(token))].law
Named(text) == {NamedBy(text[p]) : p \in {q \in DOMAIN text : text[q].kind = "law"}}
Written(files, law, n) == \E f \in ToSet(files) : f.slug = law /\ Tier(f) = "statute" /\ n \in f.articles

\* An article that stands is in a loaded statute of a law the text names.  Where it names one law
\* only and is written without marks, an article stands exactly when that law was named near enough
\* and its statute has it.
Faithful(files, raw, text) ==
    \A p \in ArticlesOf(raw) :
        LET stands == text[p] = raw[p]
            near == \E q \in DOMAIN raw : raw[q].kind = "law" /\ q <= p + AHEAD /\ p <= q + BEHIND
            given == \E law \in Named(raw) : Written(files, law, raw[p].number)
        IN  /\ stands => given
            /\ Cardinality(Named(raw)) = 1 /\ Marks \notin ToSet(raw) => stands = (near /\ given)

\* What is handed over was judged by the statutes that were loaded when it was handed over, not by
\* contracts and not by what was loaded when it was asked; and passages and guard come from the same
\* reading of the files, unless reading them again has failed.
GuardJudgesByTheText ==
    /\ ask.at = "answered" => Faithful(ask.judged, ask.raw, ask.text)
    /\ index # NotLoaded /\ corpus # NotLoaded /\ ~failed => index = corpus

\* The explicit form wins: an article that is followed at once by the name of a law is judged by
\* that law (_law_at).
ExplicitFormWins ==
    ask.at = "answered" =>
        \A p \in ArticlesOf(ask.text) :
            p < Len(ask.raw) /\ ask.raw[p + 1].kind = "law" =>
                Written(ask.judged, NamedBy(ask.raw[p + 1]), ask.raw[p].number)
=============================================================================
