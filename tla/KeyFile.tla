------------------------------- MODULE KeyFile -------------------------------
(***************************************************************************)
(* The screen that replaces a key (app/admin/keys.py): one line of .env is *)
(* rewritten, through a backup and a staged copy, in place, because the    *)
(* file may be a mount of its own.  A save runs to its end unless the      *)
(* process dies; what was open then is cut off anywhere.                   *)
(*                                                                         *)
(* In a container (docker-compose.yml, deploy.sh) the process is started   *)
(* again with what .env held when the container was created, and Settings  *)
(* (app/config.py) takes that before what .env holds.                      *)
(*                                                                         *)
(* A file is a sequence of lines, a line a key and its value; the values   *)
(* given to a key are numbered.                                            *)
(***************************************************************************)
EXTENDS Naturals, Sequences, SequencesExt, FiniteSets, FiniteSetsExt

CONSTANTS
    Keys,          \* what the screen may change
    Comment,       \* a line that is no key
    KeepBackups,   \* _KEEP_BACKUPS
    MaxSaves,      \* bound
    MaxCrashes,    \* bound
    MaxSeconds     \* bound: the clock of the backups' names

FileAssumption == IsFiniteSet(Keys) /\ KeepBackups \in Nat \ {0}

VARIABLES
    env,       \* .env
    tmp,       \* .env.tmp
    backups,   \* the backups by their second
    environ,   \* what the process takes for its settings
    contained, \* whether it runs in a container
    created,     \* what the container was created with: 0 for a key that it does not set
    save,      \* the save that runs, or ran last: [at, name, read, text]
    second, saves, crashes,
    blind,     \* a save has begun with what a crash left of .env: history
    latest,    \* the value of each key that was saved last: history
    changed    \* the keys saved since the process was started: history

keyVars == <<env, tmp, backups, environ, contained, created, save, second, saves, crashes, blind, latest, changed>>

Line(k, v) == [key |-> k, value |-> v]
File(lines) == [there |-> TRUE, lines |-> lines]
NoFile == [there |-> FALSE, lines |-> <<>>]

\* The last line of a name counts.
Value(lines, k) ==
    LET at == {i \in DOMAIN lines : lines[i].key = k} IN IF at = {} THEN 0 ELSE lines[Max(at)].value

Loaded(lines) == [k \in Keys |-> Value(lines, k)]
NothingGiven == [k \in Keys |-> 0]

\* What a process that is started takes for its settings.
Started(lines, set) == [k \in Keys |-> IF set[k] # 0 THEN set[k] ELSE Value(lines, k)]

\* A file kept by hand: a comment, and any of the keys once.
Init ==
    /\ \E some \in SUBSET Keys :
          env = File(<<Line(Comment, 0)>> \o SetToSeq({Line(k, 1) : k \in some}))
    /\ tmp = NoFile /\ backups = [s \in {} |-> <<>>]
    /\ contained \in BOOLEAN /\ created = IF contained THEN Loaded(env.lines) ELSE NothingGiven
    /\ environ = Loaded(env.lines) /\ latest = environ /\ changed = {}
    /\ save = [at |-> "idle", name |-> Comment, read |-> env.lines, text |-> env.lines]
    /\ second = 0 /\ saves = 0 /\ crashes = 0 /\ blind = FALSE

\* What .env should hold: what the last save read, or what it wrote.
Whole == env.lines \in {save.read, save.text}

-----------------------------------------------------------------------------
(* set_value, step by step.                                                *)

\* The first line of the key is replaced where it stands, and every other line kept.
Replaced(lines, k, v) ==
    LET at == {i \in DOMAIN lines : lines[i].key = k}
    IN  IF at = {} THEN Append(lines, Line(k, v)) ELSE [lines EXCEPT ![Min(at)] = Line(k, v)]

BeginSave(k) ==
    /\ save.at = "idle" /\ saves < MaxSaves /\ saves' = saves + 1
    /\ save' = [at |-> "backup", name |-> k, read |-> env.lines, text |-> Replaced(env.lines, k, saves + 2)]
    /\ blind' = (blind \/ ~Whole)
    /\ UNCHANGED <<env, tmp, backups, environ, contained, created, second, crashes, latest, changed>>

At(step) == save' = [save EXCEPT !.at = step]

\* The oldest of the backups stay.
KeptOldest(files) == LET n == Cardinality(DOMAIN files) - KeepBackups
                     IN  [s \in {t \in DOMAIN files : Cardinality({u \in DOMAIN files : u > t}) >= n} |-> files[s]]

\* The newest KeepBackups of the backups stay.
Kept(files) == [s \in {t \in DOMAIN files : Cardinality({u \in DOMAIN files : u > t}) < KeepBackups} |-> files[s]]

WithBackup(lines) == [s \in DOMAIN backups \cup {second} |-> IF s = second THEN lines ELSE backups[s]]

\* A second save within the second writes over the backup of the first.
Backup ==
    /\ save.at = "backup"
    /\ backups' = IF env.there THEN Kept(WithBackup(env.lines)) ELSE backups
    /\ At("stage")
    /\ UNCHANGED <<env, tmp, environ, contained, created, changed, second, saves, crashes, blind, latest>>

Stage ==
    /\ save.at = "stage"
    /\ tmp' = File(save.text)
    /\ At("copy")
    /\ UNCHANGED <<env, backups, environ, contained, created, changed, second, saves, crashes, blind, latest>>

Copy ==
    /\ save.at = "copy"
    /\ env' = File(save.text)
    /\ latest' = [latest EXCEPT ![save.name] = Value(save.text, save.name)]
    /\ At("drop")
    /\ UNCHANGED <<tmp, backups, environ, contained, created, changed, second, saves, crashes, blind>>

\* The staged file goes, and the value is live without a restart.
Drop ==
    /\ save.at = "drop"
    /\ tmp' = NoFile
    /\ environ' = [environ EXCEPT ![save.name] = latest[save.name]]
    /\ changed' = changed \cup {save.name}
    /\ At("idle")
    /\ UNCHANGED <<env, backups, contained, created, second, saves, crashes, blind, latest>>

CutOff(lines) == {SubSeq(lines, 1, n) : n \in 0 .. Len(lines)}

\* The process dies with a file half written, and is started again, or deployed anew.
Crash ==
    /\ crashes < MaxCrashes /\ crashes' = crashes + 1
    /\ CASE save.at = "backup" ->
              /\ \E part \in CutOff(env.lines) : backups' = WithBackup(part)
              /\ UNCHANGED <<env, tmp>>
         [] save.at = "stage" -> (\E part \in CutOff(save.text) : tmp' = File(part)) /\ UNCHANGED <<env, backups>>
         [] save.at = "copy" -> (\E part \in CutOff(save.text) : env' = File(part)) /\ UNCHANGED <<tmp, backups>>
         [] OTHER -> UNCHANGED <<env, tmp, backups>>
    /\ created' \in IF contained THEN {created, Loaded(env'.lines)} ELSE {created}
    /\ environ' = Started(env'.lines, created') /\ changed' = {}
    /\ latest' = IF save.at # "idle" /\ env'.lines = save.text
                 THEN [latest EXCEPT ![save.name] = Value(save.text, save.name)] ELSE latest
    /\ At("idle")
    /\ UNCHANGED <<contained, second, saves, blind>>

Clock ==
    /\ second < MaxSeconds /\ second' = second + 1
    /\ UNCHANGED <<env, tmp, backups, environ, contained, created, save, saves, crashes, blind, latest, changed>>

Next == (\E k \in Keys : BeginSave(k)) \/ Backup \/ Stage \/ Copy \/ Drop \/ Crash \/ Clock

-----------------------------------------------------------------------------
(* Properties.                                                             *)

\* A crash cannot lose the keys: .env is whole, or the new text is in .env.tmp and the old one in
\* the newest backup (_write_env); and until a save builds on a file that was cut off, the last
\* value of every key is in one or the other.  What is live is what .env holds, except for a key
\* that the container was created with and that nobody saved since the process was started.
KeysSurviveCrashes ==
    /\ Whole \/ (tmp = File(save.text) /\ backups[Max(DOMAIN backups)] = save.read)
    /\ ~blind => LET kept == IF Whole THEN env.lines ELSE tmp.lines
                 IN  \A k \in Keys : Value(kept, k) = latest[k] \/ (~Whole /\ k = save.name)
    /\ save.at = "idle" => \A k \in Keys :
          environ[k] = IF created[k] # 0 /\ k \notin changed THEN created[k] ELSE Value(env.lines, k)

-----------------------------------------------------------------------------
(* What is not kept.                                                       *)

\* Not kept in a container: what was saved is live after a restart.  The file has it, and the
\* container's environment, which comes first, has the value of its creation.
SavedIsLiveAfterRestart == save.at = "idle" => environ = Loaded(env.lines)
=============================================================================
