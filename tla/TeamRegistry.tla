---------------------------- MODULE TeamRegistry ----------------------------
(***************************************************************************)
(* umabot/agents/team_registry.py and controlpanel/routers/agent_teams.py: *)
(* teams are directories of files, and nothing locks them.  The control    *)
(* panel makes a new TeamRegistry for each request; its handlers await     *)
(* nothing, so they follow each other.  The gateway, in a process of its   *)
(* own, reads the same directories when a worker selects a team, file by   *)
(* file, whatever the panel is writing, copying or removing then.  A panel *)
(* that dies leaves what it wrote.                                         *)
(* The worker's own registry keeps its last reading in _teams.             *)
(***************************************************************************)
EXTENDS Naturals, Sequences, TLC

(* _default_team_dirs, _default_install_dir                                *)
CONSTANTS
    Key,       \* team ids, and the directories of that name in the install dir
    Shared,    \* directories of other roots, which come first
    MaxWrites  \* bound: definitions written

NoEntry == "no team"    \* None

ASSUME RegistryAssumption ==
    /\ Key # {} /\ Key \cap Shared = {} /\ NoEntry \notin Key \cup Shared
    /\ MaxWrites \in Nat

VARIABLES
    files,     \* what a directory holds: the number of a write, or none
    present,   \* directories that exist
    written,   \* definitions by number: id, enabled and how TEAM.md reads
    panel,     \* the request of the panel under way
    reading,   \* the worker's selection
    cache,     \* what the worker's registry read last
    reported   \* history: what is said of an id: its files, Nothing, or Unknown

registryVars == <<files, present, written, panel, reading, cache, reported>>

Home == Key
Dir == Home \cup Shared
File == {"team", "rules"}

(* WORKSTEPS.md is written and read after RULES.md, in the same way, and   *)
(* left out.  A file is missing, or opened and not yet written, or as some *)
(* write left it.  A TEAM.md is in order, or is skipped (invalid), or      *)
(* makes _load_team_dir raise: it converts values outside of its try.      *)
Missing == 0
Opened == MaxWrites + 2
Reads == {"ok", "skipped", "raises"}
Definition == [id : Key, enabled : BOOLEAN, reads : Reads]

Nothing == [f \in File |-> Missing]
Unknown == [f \in File |-> Opened]
AllOf(n) == [f \in File |-> n]
Shipped == AllOf(1)

(* A TEAM.md that is being written is empty or ends before the second ---, *)
(* so it has no frontmatter and is skipped.                                *)
Parses(dir) == dir["team"] \in DOMAIN written

(* _validate_team                                                          *)
Valid(definition) == definition.reads = "ok"

Loads(dir) == Parses(dir) /\ Valid(written[dir["team"]])

IdOf(dir) == written[dir["team"]].id

(* One such directory and refresh raises, whoever calls it.                *)
Raises(held) ==
    \E d \in DOMAIN held :
        Parses(held[d]) /\ written[held[d]["team"]].reads = "raises"

(* The directories an id may stand for: the roots are read in order, the   *)
(* directories of one in any order, and the first has the id.              *)
Bearing(id, among) == {d \in among : Loads(files[d]) /\ IdOf(files[d]) = id}

Resolves(id) ==
    IF Bearing(id, present \cap Shared) # {}
    THEN Bearing(id, present \cap Shared)
    ELSE Bearing(id, present \cap Home)

Quiet == [pc |-> "idle", id |-> NoEntry, dir |-> NoEntry, todo |-> {}, as |-> Nothing]
NoSelection == [pc |-> "idle", dir |-> NoEntry, left |-> {}, found |-> <<>>, trust |-> {}]

RegistryInit ==
    /\ written = <<[id |-> CHOOSE k \in Key : TRUE, enabled |-> TRUE, reads |-> "ok"]>>
    /\ files = [d \in Dir |-> IF d \in Shared THEN Shipped ELSE Nothing]
    /\ present = Shared
    /\ panel = Quiet
    /\ reading = NoSelection
    /\ cache = <<>>
    /\ reported = [id \in Key |->
                      IF Shared # {} /\ id = written[1].id THEN Shipped ELSE Nothing]

(***************************************************************************)
(* The panel                                                               *)
(***************************************************************************)

(* The constructor reads all directories before a handler does anything.   *)
Constructed == panel = Quiet /\ ~Raises(files)

(* history: from here on nothing is said of the id whose files it writes   *)
(* or removes, to a selection under way either.                            *)
Begins(request) ==
    /\ panel' = request
    /\ reported' = [reported EXCEPT ![request.id] = Unknown]
    /\ reading' = [reading EXCEPT !.trust = @ \ {request.id}]

Defines(id, enabled, reads) ==
    /\ Len(written) <= MaxWrites
    /\ written' = Append(written, [id |-> id, enabled |-> enabled, reads |-> reads])

(* create_team and update_team write nothing that is not valid.            *)
DefinesValid(id, enabled) ==
    /\ \E reads \in Reads : Defines(id, enabled, reads)
    /\ Valid(written'[Len(written')])

(* _write_team_dir opens TEAM.md, and goes on in Write.                    *)
StartsWriting(id, d) ==
    /\ files' = [files EXCEPT ![d]["team"] = Opened]
    /\ present' = present \cup {d}
    /\ Begins([pc |-> "writing", id |-> id, dir |-> d, todo |-> File,
               as |-> AllOf(Len(written) + 1)])

(* create_team writes what it is given, in order since validated, unless   *)
(* its directory exists.  That another directory has the id is not looked  *)
(* at.                                                                     *)
MayCreate_Always(d) == TRUE
MayCreate(d) == d \notin present

Create(d, enabled) ==
    /\ Constructed /\ d \in Home /\ MayCreate(d)
    /\ DefinesValid(d, enabled)
    /\ StartsWriting(d, d)
    /\ UNCHANGED cache

(* update_team writes where the id was found, if that is writable.         *)
Writable(d) == d \in Home

Update(id, enabled) ==
    /\ Constructed
    /\ \E d \in Resolves(id) :
         /\ Writable(d)
         /\ DefinesValid(id, enabled)
         /\ StartsWriting(id, d)
    /\ UNCHANGED cache

(* One write_text after the other; each empties its file first.            *)
Write(f) ==
    /\ panel.pc = "writing" /\ f \in panel.todo
    /\ f = "rules" => "team" \notin panel.todo
    /\ IF files[panel.dir][f] = Opened
       THEN /\ files' = [files EXCEPT ![panel.dir][f] = panel.as[f]]
            /\ panel' = [panel EXCEPT !.todo = @ \ {f}]
       ELSE /\ files' = [files EXCEPT ![panel.dir][f] = Opened]
            /\ UNCHANGED panel
    /\ UNCHANGED <<present, written, reading, cache, reported>>

(* delete_team: rmtree, in any order, then the directory itself.           *)
Delete(id) ==
    /\ Constructed
    /\ \E d \in Resolves(id) :
         /\ Writable(d)
         /\ Begins([pc |-> "removing", id |-> id, dir |-> d, as |-> Nothing,
                    todo |-> {f \in File : files[d][f] # Missing}])
    /\ UNCHANGED <<files, present, written, cache>>

Removes(f) ==
    /\ panel.pc = "removing" /\ f \in panel.todo
    /\ files' = [files EXCEPT ![panel.dir][f] = Missing]
    /\ panel' = [panel EXCEPT !.todo = @ \ {f}]

Remove(f) ==
    /\ Removes(f)
    /\ UNCHANGED <<present, written, reading, cache, reported>>

(* What a source may hold (a bound; more kinds of it add nothing).         *)
Source ==
    [reads : Reads, has : {File}] \cup [reads : {"ok"}, has : {{"team"}, {"rules"}}]

(* install_team copies a directory, or has git make it; the source may     *)
(* lack the other files, and may have any id and any TEAM.md.              *)
Install(d, id, source) ==
    /\ Constructed /\ d \in Home /\ d \notin present
    /\ Defines(id, TRUE, source.reads)
    /\ present' = present \cup {d}
    /\ Begins([pc |-> "copying", id |-> id, dir |-> d, todo |-> source.has,
               as |-> [f \in File |-> IF f \in source.has THEN Len(written) + 1 ELSE Missing]])
    /\ UNCHANGED <<files, cache>>

Copy(f) ==
    /\ panel.pc = "copying" /\ f \in panel.todo
    /\ files' = [files EXCEPT ![panel.dir][f] = panel.as[f]]
    /\ panel' = [panel EXCEPT !.todo = @ \ {f}]
    /\ UNCHANGED <<present, written, reading, cache, reported>>

(* A clone without TEAM.md is removed again, and is of no id.              *)
NotATeam ==
    /\ panel.pc = "copying" /\ panel.todo = {}
    /\ panel.as["team"] = Missing
    /\ panel' = [panel EXCEPT !.pc = "removing", !.id = NoEntry, !.as = Nothing,
                              !.todo = {f \in File : files[panel.dir][f] # Missing}]
    /\ UNCHANGED <<files, present, written, reading, cache, reported>>

(* The request is done, and answers 200 after refresh and get_team.  It    *)
(* is an error for a clone that is gone again, and for an installed        *)
(* TEAM.md that is skipped or bears another id than its directory's name,  *)
(* or raises; then the files stay.                                         *)
Succeeds ==
    /\ panel.id # NoEntry
    /\ panel.pc = "copying" => Loads(panel.as) /\ panel.id = panel.dir

(* history: the handlers look at the directory they found or made only;    *)
(* when another one bears the id, the answer says nothing of what is run.  *)
Answers ==
    /\ panel.pc # "idle" /\ panel.todo = {}
    /\ panel.pc = "copying" => panel.as["team"] # Missing
    /\ present' = IF panel.pc = "removing" THEN present \ {panel.dir} ELSE present
    /\ reported' = IF Succeeds /\ Bearing(panel.id, present \ {panel.dir}) = {}
                   THEN [reported EXCEPT ![panel.id] = panel.as] ELSE reported
    /\ panel' = Quiet
    /\ UNCHANGED <<files, written, reading, cache>>

(* A copy or a removal fails, or the panel dies: what is there stays.      *)
Abandoned ==
    /\ panel.pc # "idle"
    /\ panel' = Quiet
    /\ UNCHANGED <<files, present, written, reading, cache, reported>>

(***************************************************************************)
(* The worker: refresh, for each message, and select_team                  *)
(***************************************************************************)

(* history: trust is the ids of which something is said when the selection *)
(* begins, less those that a request begins to change after that.          *)
SelectionBegins ==
    /\ reading.pc = "idle"
    /\ reading' = [reading EXCEPT !.pc = "roots", !.left = present, !.found = <<>>,
                                  !.trust = {id \in Key : reported[id] # Unknown}]
    /\ UNCHANGED <<files, present, written, panel, cache, reported>>

(* The next directory: those of Shared first.  A TEAM.md that is missing   *)
(* (a directory removed meanwhile too) or skipped ends it.                 *)
NextDir(d) ==
    /\ reading.pc = "roots" /\ d \in reading.left
    /\ reading.left \cap Shared # {} => d \in Shared

(* TEAM.md of d has been read, and nothing else of it.                     *)
WithTeam(found, d) ==
    [e \in DOMAIN found \cup {d} |->
        IF e = d THEN [Nothing EXCEPT !["team"] = files[d]["team"]] ELSE found[e]]

ReadsTeam(d) ==
    /\ NextDir(d) /\ Loads(files[d])
    /\ reading' = [reading EXCEPT !.pc = "dir", !.dir = d, !.left = @ \ {d},
                                  !.found = WithTeam(@, d)]
    /\ UNCHANGED <<files, present, written, panel, cache, reported>>

SkipsTeam(d) ==
    /\ NextDir(d) /\ ~Loads(files[d]) /\ ~Raises(d :> files[d])
    /\ reading' = [reading EXCEPT !.left = @ \ {d}]
    /\ UNCHANGED <<files, present, written, panel, cache, reported>>

(* Then RULES.md is read, if it is there.                                  *)
ReadsRules ==
    /\ reading.pc = "dir"
    /\ reading' = [reading EXCEPT !.found[reading.dir]["rules"] = files[reading.dir]["rules"],
                                  !.pc = "roots"]
    /\ UNCHANGED <<files, present, written, panel, cache, reported>>

(* A directory that makes refresh raise ends the selection, and the old    *)
(* reading stays.                                                          *)
SelectionFails(d) ==
    /\ NextDir(d) /\ Raises(d :> files[d])
    /\ reading' = NoSelection
    /\ UNCHANGED <<files, present, written, panel, cache, reported>>

(* A file that was there, and is removed before it is read, does too.      *)
IsReading(d, f) ==
    IF f = "team" THEN NextDir(d) ELSE reading.pc = "dir" /\ reading.dir = d

FileVanishes(f) ==
    /\ IsReading(panel.dir, f)
    /\ Removes(f)
    /\ reading' = NoSelection
    /\ UNCHANGED <<present, written, cache, reported>>

(* Of the directories with one id the first read is kept, so one of Shared *)
(* if there is one.                                                        *)
Heads(found) ==
    {d \in DOMAIN found :
        d \in Shared \/ \A e \in Shared \cap DOMAIN found : IdOf(found[e]) # IdOf(found[d])}

(* refresh replaces _teams by what it read.                                *)
Refreshed_Once(found) == IF cache = <<>> THEN found ELSE cache
Refreshed(found) == found

(* _on_message refreshes, and may need no team.                            *)
RefreshEnds ==
    /\ reading.pc = "roots" /\ reading.left = {}
    /\ cache' = Refreshed(reading.found)
    /\ reading' = NoSelection
    /\ UNCHANGED <<files, present, written, panel, reported>>

Enabled(teams) == {d \in Heads(teams) : written[teams[d]["team"]].enabled}

(* _score_team: the task may fit any of the enabled teams best, and none   *)
(* of them well enough for its threshold (NoEntry).                        *)
Best(teams) == Enabled(teams) \cup {NoEntry}

Selects(d) ==
    /\ reading.pc = "roots" /\ reading.left = {}
    /\ cache' = Refreshed(reading.found)
    /\ d \in Best(cache')
    /\ reading' = [reading EXCEPT !.pc = "taken", !.found = <<>>, !.dir = d]
    /\ UNCHANGED <<files, present, written, panel, reported>>

SelectionEnds ==
    /\ reading.pc = "taken"
    /\ reading' = NoSelection
    /\ UNCHANGED <<files, present, written, panel, cache, reported>>

PanelNext ==
    \/ \E d \in Home, enabled \in BOOLEAN : Create(d, enabled)
    \/ \E id \in Key, enabled \in BOOLEAN : Update(id, enabled)
    \/ \E id \in Key : Delete(id)
    \/ \E d \in Home, id \in Key, source \in Source : Install(d, id, source)
    \/ \E f \in File : Write(f) \/ Remove(f) \/ Copy(f)
    \/ NotATeam \/ Answers \/ Abandoned

WorkerNext ==
    \/ SelectionBegins \/ ReadsRules \/ RefreshEnds \/ SelectionEnds
    \/ \E f \in File : FileVanishes(f)
    \/ \E d \in Dir : ReadsTeam(d) \/ SkipsTeam(d) \/ SelectionFails(d)
    \/ \E d \in Dir \cup {NoEntry} : Selects(d)

RegistryNext == PanelNext \/ WorkerNext

RegistrySpec == RegistryInit /\ [][RegistryNext]_registryVars

-----------------------------------------------------------------------------
(* When the panel answered a request for an id, and no other directory     *)
(* bore that id then, a selection that begins before the next request that *)
(* writes or removes files of the id takes the id, if at all, as reported, *)
(* in all its files and wherever it finds it: a team that was reported     *)
(* deleted or disabled is not started, not from another directory either,  *)
(* and no team runs on the rules of an earlier write.                      *)
ReportedIsTaken ==
    LET taken == cache[reading.dir] IN
    reading.pc = "taken" /\ reading.dir # NoEntry =>
        (IdOf(taken) \in reading.trust => taken = reported[IdOf(taken)])

(* The panel changes a team's files only in answer to a request for its    *)
(* id, and never those that were not installed: no create and no install   *)
(* takes the directory of another team, whatever id it bears.              *)
TeamsAreKept ==
    [][\A d \in Dir :
         panel.pc = "idle" /\ panel'.dir = d /\ Loads(files[d]) =>
            d \in Home /\ panel'.id = IdOf(files[d])]_registryVars
=============================================================================
