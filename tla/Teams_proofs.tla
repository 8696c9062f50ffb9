---------------------------- MODULE Teams_proofs ----------------------------
(***************************************************************************)
(* Teams: that what the panel reports of a team is what a selection runs   *)
(* (TeamRegistry), for any number of teams, directories and writes; and    *)
(* the safety properties of a run (TeamRun) for any number of agents,      *)
(* iterations, calls and retries, any tools, rules and workspaces and any  *)
(* replies.                                                                *)
(***************************************************************************)
EXTENDS TeamRun, TeamRegistry, TLAPS

-----------------------------------------------------------------------------
(* The registry.                                                           *)

(* A directory holds the number of a write, or none, in each of its files. *)
Holds == [File -> Nat]
Readings == UNION {[D -> Holds] : D \in SUBSET Dir}
Requests == [pc : {"idle", "writing", "removing", "copying"}, id : Key \cup {NoEntry},
             dir : Dir \cup {NoEntry}, todo : SUBSET File, as : Holds]
Selections == [pc : {"idle", "roots", "dir", "taken"}, dir : Dir \cup {NoEntry},
               left : SUBSET Dir, found : Readings, trust : SUBSET Key]

RegistryTypes ==
    /\ files \in [Dir -> Holds] /\ reported \in [Key -> Holds]
    /\ present \subseteq Dir
    /\ written \in Seq(Definition) /\ Len(written) <= MaxWrites + 1
    /\ panel \in Requests
    /\ reading \in Selections
    /\ cache \in Readings

(* A TEAM.md has the number of a write that there was.                     *)
Numbers(n) == n <= Len(written) \/ n = Opened
Numbered ==
    /\ \A d \in Dir : Numbers(files[d]["team"])
    /\ panel.pc # "idle" => Numbers(panel.as["team"])
    /\ \A d \in DOMAIN reading.found : Loads(reading.found[d])
    /\ \A d \in DOMAIN cache : Loads(cache[d])

(* Of an id of which something is said this is what every directory holds  *)
(* that bears it, and nothing is said of the id whose files a request is   *)
(* writing or removing.                                                    *)
Promised ==
    /\ \A d \in Dir : Loads(files[d]) =>
           reported[IdOf(files[d])] \in {Unknown, files[d]}
    /\ panel.pc # "idle" =>
           /\ panel.dir \in Dir
           /\ panel.id # NoEntry => reported[panel.id] = Unknown
           /\ Loads(files[panel.dir]) => panel.id = IdOf(files[panel.dir])
           /\ Loads(panel.as) => panel.id = IdOf(panel.as)
    /\ panel.pc = "idle" => panel.dir = NoEntry

(* A request has done its work in the files that are not left to do, and   *)
(* nothing is ever left in a directory that is gone.                       *)
Worked ==
    /\ panel.pc # "idle" =>
           panel.dir \in present /\ \A f \in File \ panel.todo : files[panel.dir][f] = panel.as[f]
    /\ panel.pc = "removing" => panel.as = Nothing
    /\ \A d \in Dir \ present : files[d] = Nothing

(* A selection has read a directory as it is, if it may trust its id.      *)
ReadSoFar ==
    LET found == reading.found IN
    /\ \A id \in reading.trust : reported[id] # Unknown
    /\ reading.pc \in {"roots", "dir"} =>
           \A d \in DOMAIN found : IdOf(found[d]) \in reading.trust =>
               /\ found[d]["team"] = files[d]["team"]
               /\ d # reading.dir \/ reading.pc = "roots" => found[d]["rules"] = files[d]["rules"]
    /\ reading.pc = "dir" => reading.dir \in DOMAIN found
    /\ reading.pc = "taken" /\ reading.dir # NoEntry => reading.dir \in DOMAIN cache

RegistryInv == RegistryTypes /\ Numbered /\ Promised /\ Worked /\ ReadSoFar /\ ReportedIsTaken

LEMMA RegistryFacts ==
    /\ MaxWrites \in Nat /\ Key # {} /\ NoEntry \notin Dir /\ Home \subseteq Dir
         /\ Shared \subseteq Dir
    /\ Nothing \in Holds /\ Unknown \in Holds /\ Shipped \in Holds
    /\ \A n \in Nat : AllOf(n) \in Holds
    /\ \A f \in File : Nothing[f] = 0 /\ Unknown[f] = Opened
    /\ Nothing # Unknown /\ Shipped # Unknown
    /\ <<>> \in Readings
<1>1. MaxWrites \in Nat /\ Key # {} /\ NoEntry \notin Dir /\ Home \subseteq Dir
        /\ Shared \subseteq Dir
  BY RegistryAssumption DEF Home, Dir
<1>2. Opened \in Nat /\ Missing = 0 /\ Opened # 0 /\ Opened # 1
  BY <1>1 DEF Opened, Missing
<1>3. /\ Nothing \in Holds /\ Unknown \in Holds /\ Shipped \in Holds
      /\ \A n \in Nat : AllOf(n) \in Holds
  BY <1>2 DEF Nothing, Unknown, Shipped, AllOf, Holds, Missing
<1>4. \A f \in File : Nothing[f] = 0 /\ Unknown[f] = Opened
  BY DEF Nothing, Unknown, Missing
<1>5. Shipped["team"] = 1 /\ "team" \in File
  BY DEF Shipped, AllOf, File
<1>6. Nothing # Unknown /\ Shipped # Unknown
  BY <1>2, <1>4, <1>5
<1>7. <<>> \in Readings
  <2>1. <<>> \in [{} -> Holds]
    OBVIOUS
  <2> QED  BY <2>1 DEF Readings
<1> QED  BY <1>1, <1>3, <1>4, <1>6, <1>7

LEMMA SameHolds ==
    ASSUME NEW x \in Holds, NEW y \in Holds, \A f \in File : x[f] = y[f] PROVE x = y
BY DEF Holds

(* A directory without files is not a team.                                *)
LEMMA NothingIsNoTeam == ASSUME RegistryTypes PROVE ~Loads(Nothing)
<1>1. DOMAIN written = 1..Len(written) /\ "team" \in File
  BY DEF RegistryTypes, File
<1>2. Nothing["team"] = 0
  BY <1>1, RegistryFacts
<1> QED  BY <1>1, <1>2 DEF Loads, Parses

(* The definitions that there were stay.                                   *)
Grows ==
    /\ written' \in Seq(Definition) /\ Len(written') <= MaxWrites + 1
    /\ Len(written) <= Len(written')
    /\ \A n \in DOMAIN written : written'[n] = written[n]

LEMMA DefinitionAdded ==
    ASSUME RegistryTypes, NEW id \in Key, NEW enabled \in BOOLEAN, NEW reads \in Reads,
           Defines(id, enabled, reads)
    PROVE  /\ Grows /\ Len(written) + 1 \in Nat /\ Len(written') = Len(written) + 1
           /\ written'[Len(written) + 1].id = id
           /\ MaxWrites \in Nat /\ Len(written) <= MaxWrites
<1>1. [id |-> id, enabled |-> enabled, reads |-> reads] \in Definition
  BY DEF Definition
<1>2. MaxWrites \in Nat
  BY RegistryFacts
<1> QED  BY <1>1, <1>2 DEF Defines, RegistryTypes, Grows

(* What has been read or written of a TEAM.md means what it meant.         *)
LEMMA SameTeams ==
    ASSUME RegistryTypes, Grows
    PROVE  /\ \A n \in Nat : Numbers(n) =>
                 /\ n \in DOMAIN written' <=> n \in DOMAIN written
                 /\ n \in DOMAIN written => written'[n] = written[n]
                 /\ n <= Len(written') \/ n = Opened
           /\ \A n \in DOMAIN written : n \in DOMAIN written' /\ n \in Nat /\ Numbers(n)
<1>1. /\ DOMAIN written = 1..Len(written) /\ DOMAIN written' = 1..Len(written')
      /\ Len(written) \in Nat /\ Len(written') \in Nat
  BY DEF RegistryTypes, Grows
<1>2. MaxWrites \in Nat
  BY RegistryFacts
<1> QED  BY <1>1, <1>2 DEF Numbers, Grows, Opened

LEMMA IdFacts ==
    ASSUME RegistryTypes, NEW x, Loads(x)
    PROVE  IdOf(x) \in Key /\ x["team"] \in DOMAIN written
<1>1. x["team"] \in DOMAIN written
  BY DEF Loads, Parses
<1>2. written[x["team"]] \in Definition
  BY <1>1 DEF RegistryTypes
<1> QED  BY <1>1, <1>2 DEF IdOf, Definition

(* A file that was opened and not written is not a team.                   *)
LEMMA OpenedIsNoTeam ==
    ASSUME RegistryTypes, NEW x, x["team"] = Opened PROVE ~Loads(x)
<1>1. DOMAIN written = 1..Len(written) /\ Len(written) \in Nat /\ Len(written) <= MaxWrites + 1
      /\ MaxWrites \in Nat
  BY RegistryFacts DEF RegistryTypes
<1> QED  BY <1>1 DEF Loads, Parses, Opened

LEMMA RegistryInvInit == RegistryInit => RegistryInv
<1> SUFFICES ASSUME RegistryInit PROVE RegistryInv
  OBVIOUS
<1> USE RegistryFacts
<1>1. /\ panel = Quiet /\ reading = NoSelection /\ present = Shared /\ cache = <<>>
      /\ files = [d \in Dir |-> IF d \in Shared THEN Shipped ELSE Nothing]
      /\ reported = [id \in Key |->
                       IF Shared # {} /\ id = written[1].id THEN Shipped ELSE Nothing]
  BY DEF RegistryInit
<1>2. RegistryTypes
  <2>1. written \in Seq(Definition) /\ Len(written) <= MaxWrites + 1
    <3>1. written \in Seq(Definition)
      <4> DEFINE first == [id |-> CHOOSE k \in Key : TRUE, enabled |-> TRUE, reads |-> "ok"]
      <4>1. first \in Definition
        BY DEF Definition, Reads
      <4>2. written = <<first>>
        BY DEF RegistryInit
      <4> HIDE DEF first
      <4> QED  BY <4>1, <4>2
    <3>2. Len(written) = 1
      BY DEF RegistryInit
    <3> QED  BY <3>1, <3>2
  <2>2. Quiet \in Requests /\ NoSelection \in Selections
    BY DEF Quiet, NoSelection, Requests, Selections
  <2>3. files \in [Dir -> Holds] /\ reported \in [Key -> Holds]
    BY <1>1
  <2> QED  BY <1>1, <2>1, <2>2, <2>3 DEF RegistryTypes
<1>3. Worked
  BY <1>1 DEF Worked, Quiet, Dir
<1>4. Numbered /\ Promised
  <2>1. Shipped["team"] = 1 /\ Nothing["team"] = 0 /\ Len(written) = 1
    BY DEF Shipped, AllOf, File, Nothing, Missing, RegistryInit
  <2>2. ~Loads(Nothing)
    BY <1>2, NothingIsNoTeam
  <2>3. \A d \in Dir : Numbers(files[d]["team"])
    BY <1>1, <2>1 DEF Numbers
  <2>4. ASSUME NEW d \in Dir, Loads(files[d]) PROVE reported[IdOf(files[d])] \in {Unknown, files[d]}
    <3>1. d \in Shared /\ files[d] = Shipped /\ IdOf(files[d]) = written[1].id
      BY <1>1, <2>1, <2>2, <2>4 DEF IdOf
    <3>2. IdOf(files[d]) \in Key
      BY <1>2, <2>4, IdFacts
    <3> QED  BY <1>1, <3>1, <3>2
  <2>5. Numbered
    BY <1>1, <2>3 DEF Numbered, Quiet, NoSelection
  <2>6. Promised
    BY <1>1, <2>4 DEF Promised, Quiet
  <2> QED  BY <2>5, <2>6
<1>5. ReadSoFar /\ ReportedIsTaken
  BY <1>1 DEF ReadSoFar, ReportedIsTaken, NoSelection
<1> QED  BY <1>2, <1>3, <1>4, <1>5 DEF RegistryInv

(* A request begins: nothing is said of its id any more, which is that of  *)
(* what its directory holds and of what it will hold, and it has work to   *)
(* do in every file that is not as it wants it.                            *)
LEMMA RequestBegins ==
    ASSUME RegistryInv, Constructed, NEW d \in Dir, NEW request \in Requests, Begins(request),
           request.dir = d, request.pc # "idle", request.pc = "removing" => request.as = Nothing,
           request.id \in Key,
           files' \in [Dir -> Holds], Grows, UNCHANGED cache,
           present' \subseteq Dir, present \subseteq present', d \in present',
           \A e \in Dir \ {d} : files'[e] = files[e],
           \A f \in File \ request.todo : files'[d][f] = request.as[f],
           Loads(files[d]) => IdOf(files[d]) = request.id,
           Loads(files[d])' => IdOf(files[d])' = request.id,
           Loads(request.as)' => IdOf(request.as)' = request.id,
           Numbers(files[d]["team"])', Numbers(request.as["team"])'
    PROVE  RegistryInv'
<1> USE DEF RegistryInv
<1> USE RegistryFacts
<1>1. /\ panel' = request /\ panel.pc = "idle"
      /\ reported' = [reported EXCEPT ![request.id] = Unknown]
      /\ reading' = [reading EXCEPT !.trust = @ \ {request.id}]
  BY DEF Begins, Constructed, Quiet
<1>2. /\ reported' \in [Key -> Holds] /\ reported'[request.id] = Unknown
      /\ \A id \in Key \ {request.id} : reported'[id] = reported[id]
  BY <1>1 DEF RegistryTypes
<1>3. /\ reading' \in Selections /\ reading'.pc = reading.pc /\ reading'.dir = reading.dir
      /\ reading'.found = reading.found /\ reading'.trust = reading.trust \ {request.id}
      /\ reading.trust \subseteq Key
  <2>1. reading \in Selections
    BY DEF RegistryTypes
  <2> QED  BY <1>1, <2>1 DEF Selections
<1>4. RegistryTypes'
  BY <1>1, <1>2, <1>3 DEF RegistryTypes, Grows
<1>5. \A x \in Holds : Numbers(x["team"]) =>
          /\ Loads(x)' <=> Loads(x)
          /\ Loads(x) => IdOf(x)' = IdOf(x)
          /\ Numbers(x["team"])'
  <2>1. \A x \in Holds : x["team"] \in Nat
    BY DEF Holds, File
  <2> QED  BY <2>1, SameTeams DEF Loads, Parses, Valid, IdOf, Numbers
<1>6. \A x : Loads(x) => Loads(x)' /\ IdOf(x)' = IdOf(x)
  BY SameTeams DEF Loads, Parses, Valid, IdOf
<1>7. Numbered'
  <2>1. \A e \in Dir \ {d} : Numbers(files[e]["team"])'
    <3>1. ASSUME NEW e \in Dir \ {d} PROVE Numbers(files[e]["team"])'
      <4>1. files'[e] = files[e] /\ files[e] \in Holds /\ Numbers(files[e]["team"])
        BY DEF Numbered, RegistryTypes
      <4> QED  BY <1>5, <4>1 DEF Numbers
    <3> QED  BY <3>1
  <2>2. \A e \in Dir : Numbers(files[e]["team"])'
    BY <2>1
  <2>3. \A e \in DOMAIN reading'.found : Loads(reading.found[e])'
    <3>1. ASSUME NEW e \in DOMAIN reading.found PROVE Loads(reading.found[e])'
      <4>1. Loads(reading.found[e])
        BY DEF Numbered
      <4> QED  BY <1>3, <4>1, SameTeams DEF Loads, Parses, Valid
    <3> QED  BY <1>3, <3>1
  <2>4. \A e \in DOMAIN cache' : Loads(cache[e])'
    <3>1. ASSUME NEW e \in DOMAIN cache PROVE Loads(cache[e])'
      <4>1. Loads(cache[e])
        BY DEF Numbered
      <4> QED  BY <4>1, SameTeams DEF Loads, Parses, Valid
    <3> QED  BY <3>1
  <2> QED  BY <1>1, <2>2, <2>3, <2>4 DEF Numbered
<1>8. Promised'
  <2>1. ASSUME NEW e \in Dir, Loads(files[e])'
        PROVE  (reported[IdOf(files[e])] \in {Unknown, files[e]})'
    <3>1. CASE e = d
      BY <1>2, <2>1, <3>1
    <3>2. CASE e # d
      <4>1. files'[e] = files[e] /\ files[e] \in Holds /\ Numbers(files[e]["team"])
        BY <3>2 DEF Numbered, RegistryTypes
      <4>2. Loads(files[e]) /\ IdOf(files[e])' = IdOf(files[e])
        <5>1. files[e]["team"] \in Nat
          BY <4>1 DEF Holds, File
        <5> QED  BY <2>1, <4>1, <5>1, SameTeams DEF Loads, Parses, Valid, IdOf
      <4>3. reported[IdOf(files[e])] \in {Unknown, files[e]} /\ IdOf(files[e]) \in Key
        BY <4>2, IdFacts DEF Promised
      <4> QED  BY <1>2, <4>1, <4>2, <4>3
    <3> QED  BY <3>1, <3>2
  <2> QED  BY <1>1, <1>2, <2>1 DEF Promised
<1>9. Worked'
  <2>1. \A e \in Dir \ present' : e # d /\ files'[e] = Nothing
    BY DEF Worked
  <2> QED  BY <1>1, <2>1 DEF Worked
<1>10. ReadSoFar'
  <2>1. \A id \in reading'.trust : reported'[id] # Unknown
    BY <1>2, <1>3 DEF ReadSoFar
  <2>2. ASSUME NEW e \in DOMAIN reading.found, (IdOf(reading.found[e]) \in reading.trust)',
               reading.pc \in {"roots", "dir"}
        PROVE  /\ files'[e] = files[e] /\ IdOf(reading.found[e]) \in reading.trust
    <3>1. Loads(reading.found[e]) /\ e \in Dir
      BY DEF Numbered, RegistryTypes, Selections, Readings
    <3>2. IdOf(reading.found[e])' = IdOf(reading.found[e])
      BY <1>3, <3>1, SameTeams DEF Loads, Parses, IdOf
    <3>3. IdOf(reading.found[e]) \in reading.trust \ {request.id}
      BY <1>3, <2>2, <3>2
    <3>4. reading.found[e]["team"] = files[e]["team"]
      BY <2>2, <3>3 DEF ReadSoFar
    <3>5. Loads(files[e]) /\ IdOf(files[e]) # request.id
      BY <3>1, <3>3, <3>4 DEF Loads, Parses, Valid, IdOf
    <3> QED  BY <3>1, <3>3, <3>5
  <2> QED  BY <1>3, <2>1, <2>2 DEF ReadSoFar
<1>11. ReportedIsTaken'
  <2> SUFFICES ASSUME reading.pc = "taken", reading.dir # NoEntry,
                      (IdOf(cache[reading.dir]) \in reading.trust)'
               PROVE  (cache[reading.dir] = reported[IdOf(cache[reading.dir])])'
    BY <1>3 DEF ReportedIsTaken
  <2>1. reading.dir \in DOMAIN cache /\ Loads(cache[reading.dir])
    BY DEF ReadSoFar, Numbered
  <2>2. IdOf(cache[reading.dir])' = IdOf(cache[reading.dir])
    BY <1>3, <2>1, SameTeams DEF Loads, Parses, IdOf
  <2>3. IdOf(cache[reading.dir]) \in reading.trust \ {request.id}
    BY <1>3, <2>2
  <2>4. cache[reading.dir] = reported[IdOf(cache[reading.dir])]
    BY <2>3 DEF ReportedIsTaken
  <2> QED  BY <1>2, <1>3, <2>2, <2>3, <2>4
<1> QED  BY <1>4, <1>7, <1>8, <1>9, <1>10, <1>11

(* It goes on in its directory, and nothing is said of its id.             *)
LEMMA RequestWorks ==
    ASSUME RegistryInv, panel.pc # "idle", panel' \in Requests, panel'.pc # "idle",
           panel'.dir = panel.dir, panel'.pc = "removing" => panel'.as = Nothing,
           files' \in [Dir -> Holds], \A e \in Dir \ {panel.dir} : files'[e] = files[e],
           \A f \in File \ panel'.todo : files'[panel.dir][f] = panel'.as[f],
           files'[panel.dir]["team"] \in {files[panel.dir]["team"], panel'.as["team"], Opened},
           \/ panel'.id = panel.id /\ panel'.as = panel.as
           \/ panel'.id = NoEntry /\ panel'.as = Nothing /\ files'[panel.dir]["team"] = Missing,
           reading' = reading \/ reading' = NoSelection,
           UNCHANGED <<present, written, cache, reported>>
    PROVE  RegistryInv'
<1> USE DEF RegistryInv
<1> DEFINE d == panel.dir
<1>1. RegistryTypes' /\ d \in Dir
  <2>1. NoSelection \in Selections
    BY RegistryFacts DEF NoSelection, Selections
  <2> QED  BY <2>1 DEF RegistryTypes, Promised
<1>2. Missing \in Nat /\ Numbers(Missing) /\ Numbers(Opened) /\ Nothing["team"] = Missing
      /\ ~Loads(Nothing)
  BY RegistryFacts, NothingIsNoTeam DEF Missing, Numbers, RegistryTypes, File
<1>3. Numbered'
  <2>1. Numbers(files'[d]["team"]) /\ Numbers(panel'.as["team"])
    BY <1>1, <1>2 DEF Numbered
  <2>2. \A e \in Dir : Numbers(files'[e]["team"])
    BY <2>1 DEF Numbered
  <2>3. \A e \in DOMAIN reading'.found : Loads(reading'.found[e])
    BY DEF Numbered, NoSelection
  <2> QED  BY <2>1, <2>2, <2>3 DEF Numbered, Numbers, Loads, Parses, Valid
<1>4. Loads(files'[d]) => panel'.id = panel.id /\ panel.id = IdOf(files'[d])
  <2> SUFFICES ASSUME Loads(files'[d]) PROVE panel'.id = panel.id /\ panel.id = IdOf(files'[d])
    OBVIOUS
  <2>1. files'[d]["team"] # Opened /\ files'[d]["team"] # Missing
    <3>1. files'[d]["team"] # Opened
      BY OpenedIsNoTeam
    <3>2. files'[d]["team"] # Missing
      BY <1>2 DEF Loads, Parses, Valid
    <3> QED  BY <3>1, <3>2
  <2>2. panel'.id = panel.id /\ panel'.as = panel.as
    BY <2>1
  <2>3. CASE files'[d]["team"] = files[d]["team"]
    BY <2>2, <2>3 DEF Promised, Loads, Parses, Valid, IdOf
  <2>4. CASE files'[d]["team"] = panel.as["team"]
    BY <2>2, <2>4 DEF Promised, Loads, Parses, Valid, IdOf
  <2> QED  BY <2>1, <2>2, <2>3, <2>4
<1>5. Promised'
  <2>1. panel'.id # NoEntry => reported[panel'.id] = Unknown
    BY DEF Promised
  <2>2. Loads(panel'.as) => panel'.id = IdOf(panel'.as)
    BY <1>2 DEF Promised
  <2>3. ASSUME NEW e \in Dir, Loads(files'[e])
        PROVE  reported[IdOf(files'[e])] \in {Unknown, files'[e]}
    <3>1. CASE e = d
      <4>1. panel'.id = IdOf(files'[e]) /\ IdOf(files'[e]) \in Key
        BY <1>4, <2>3, <3>1, IdFacts
      <4> QED  BY <2>1, <4>1, RegistryAssumption
    <3>2. CASE e # d
      BY <2>3, <3>2 DEF Promised
    <3> QED  BY <3>1, <3>2
  <2> QED  BY <1>1, <1>4, <2>1, <2>2, <2>3 DEF Promised, Loads, Parses, Valid, IdOf
<1>6. Worked'
  <2>1. \A e \in Dir \ present : e # d /\ files'[e] = Nothing
    BY DEF Worked
  <2> QED  BY <2>1 DEF Worked
<1>7. ReadSoFar'
  <2>1. ASSUME NEW e \in DOMAIN reading.found, IdOf(reading.found[e]) \in reading.trust,
               reading.pc \in {"roots", "dir"}
        PROVE  files'[e] = files[e]
    <3>1. Loads(reading.found[e]) /\ e \in Dir
      BY DEF Numbered, RegistryTypes, Selections, Readings
    <3>2. reading.found[e]["team"] = files[e]["team"]
      BY <2>1 DEF ReadSoFar
    <3>3. Loads(files[e]) /\ IdOf(files[e]) \in reading.trust
      BY <2>1, <3>1, <3>2 DEF Loads, Parses, Valid, IdOf
    <3>4. e # d
      <4>1. IdOf(files[e]) \in Key /\ reported[IdOf(files[e])] # Unknown
        BY <3>3, IdFacts DEF ReadSoFar
      <4> QED  BY <3>3, <4>1, RegistryAssumption DEF Promised
    <3> QED  BY <3>1, <3>4
  <2> QED  BY <2>1 DEF ReadSoFar, IdOf, NoSelection
<1>8. ReportedIsTaken'
  BY DEF ReportedIsTaken, IdOf, NoSelection
<1> QED  BY <1>1, <1>3, <1>5, <1>6, <1>7, <1>8

(* A step of one file.                                                     *)
LEMMA FileChanged ==
    ASSUME RegistryInv, panel.pc # "idle", NEW f \in File, NEW n \in Nat,
           files' = [files EXCEPT ![panel.dir][f] = n]
    PROVE  /\ files' \in [Dir -> Holds]
           /\ \A e \in Dir \ {panel.dir} : files'[e] = files[e]
           /\ files'[panel.dir][f] = n
           /\ \A g \in File \ {f} : files'[panel.dir][g] = files[panel.dir][g]
<1>1. files \in [Dir -> Holds] /\ panel.dir \in Dir
  BY DEF RegistryInv, RegistryTypes, Promised
<1> QED  BY <1>1 DEF Holds

LEMMA RequestMoves ==
    ASSUME RegistryInv,
           (\E f \in File : Write(f) \/ Remove(f) \/ Copy(f) \/ FileVanishes(f)) \/ NotATeam
    PROVE  RegistryInv'
<1> USE DEF RegistryInv
<1>1. panel \in Requests /\ files \in [Dir -> Holds]
  BY DEF RegistryTypes
<1>2. ASSUME NEW f \in File, Write(f) PROVE RegistryInv'
  <2>1. panel.as[f] \in Nat /\ Opened \in Nat /\ panel.pc = "writing" /\ f \in panel.todo
    BY <1>1, <1>2, RegistryFacts DEF Requests, Holds, Write, Opened
  <2>2. CASE files[panel.dir][f] = Opened
    <3>1. files' = [files EXCEPT ![panel.dir][f] = panel.as[f]]
          /\ panel' = [panel EXCEPT !.todo = @ \ {f}]
          /\ UNCHANGED <<present, written, reading, cache, reported>>
      BY <1>2, <2>2 DEF Write
    <3>2. /\ panel' \in Requests /\ panel'.pc = panel.pc /\ panel'.dir = panel.dir
          /\ panel'.as = panel.as /\ panel'.todo = panel.todo \ {f} /\ panel'.id = panel.id
      BY <1>1, <3>1 DEF Requests
    <3>3. /\ files' \in [Dir -> Holds]
          /\ \A e \in Dir \ {panel.dir} : files'[e] = files[e]
          /\ files'[panel.dir][f] = panel.as[f]
          /\ \A g \in File \ {f} : files'[panel.dir][g] = files[panel.dir][g]
      BY <2>1, <3>1, FileChanged
    <3>4. \A g \in File \ panel'.todo : files'[panel.dir][g] = panel'.as[g]
      BY <2>1, <3>2, <3>3 DEF Worked
    <3>5. files'[panel.dir]["team"] \in {files[panel.dir]["team"], panel'.as["team"]}
      BY <3>2, <3>3 DEF File
    <3> QED  BY <2>1, <3>1, <3>2, <3>3, <3>4, <3>5, RequestWorks
  <2>3. CASE files[panel.dir][f] # Opened
    <3>1. files' = [files EXCEPT ![panel.dir][f] = Opened] /\ panel' = panel
          /\ UNCHANGED <<present, written, reading, cache, reported>>
      BY <1>2, <2>3 DEF Write
    <3>2. \A g \in File \ panel.todo : files'[panel.dir][g] = panel.as[g]
      BY <2>1, <3>1, FileChanged DEF Worked
    <3>3. files'[panel.dir]["team"] \in {files[panel.dir]["team"], Opened}
      BY <2>1, <3>1, FileChanged DEF File
    <3>4. files' \in [Dir -> Holds] /\ \A e \in Dir \ {panel.dir} : files'[e] = files[e]
      BY <2>1, <3>1, FileChanged
    <3>5. panel.pc # "idle" /\ (panel.pc = "removing" => panel.as = Nothing)
      BY <2>1
    <3> QED  BY <1>1, <3>1, <3>2, <3>3, <3>4, <3>5, RequestWorks
  <2> QED  BY <2>2, <2>3
<1>3. ASSUME NEW f \in File, Remove(f) \/ Copy(f) \/ FileVanishes(f) PROVE RegistryInv'
  <2>1. PICK n \in Nat : n = panel.as[f] /\ files' = [files EXCEPT ![panel.dir][f] = n]
    <3>1. panel.as[f] \in Nat
      BY <1>1 DEF Requests, Holds
    <3>2. panel.pc = "removing" => panel.as[f] = Missing
      BY RegistryFacts DEF Worked, Missing
    <3> QED  BY <1>3, <3>1, <3>2 DEF Remove, Removes, Copy, FileVanishes
  <2>2. /\ panel' = [panel EXCEPT !.todo = @ \ {f}] /\ panel.pc # "idle"
        /\ reading' = reading \/ reading' = NoSelection
        /\ UNCHANGED <<present, written, cache, reported>>
    BY <1>3 DEF Remove, Removes, Copy, FileVanishes
  <2>3. /\ panel' \in Requests /\ panel'.pc = panel.pc /\ panel'.dir = panel.dir
        /\ panel'.as = panel.as /\ panel'.todo = panel.todo \ {f} /\ panel'.id = panel.id
    BY <1>1, <2>2 DEF Requests
  <2>4. /\ files' \in [Dir -> Holds]
        /\ \A e \in Dir \ {panel.dir} : files'[e] = files[e]
        /\ files'[panel.dir][f] = panel.as[f]
        /\ \A g \in File \ {f} : files'[panel.dir][g] = files[panel.dir][g]
    BY <2>1, <2>2, FileChanged
  <2>5. \A g \in File \ panel'.todo : files'[panel.dir][g] = panel'.as[g]
    BY <2>2, <2>3, <2>4 DEF Worked
  <2>6. files'[panel.dir]["team"] \in {files[panel.dir]["team"], panel'.as["team"]}
    BY <2>3, <2>4 DEF File
  <2> QED  BY <2>2, <2>3, <2>4, <2>5, <2>6, RequestWorks DEF Worked
<1>4. CASE NotATeam
  <2>1. /\ panel.pc = "copying" /\ files' = files
        /\ panel' = [panel EXCEPT !.pc = "removing", !.id = NoEntry, !.as = Nothing,
                                  !.todo = {f \in File : files[panel.dir][f] # Missing}]
        /\ UNCHANGED <<present, written, reading, cache, reported>>
    BY <1>4 DEF NotATeam
  <2>2. /\ panel' \in Requests /\ panel'.pc = "removing" /\ panel'.dir = panel.dir
        /\ panel'.id = NoEntry /\ panel'.as = Nothing /\ panel'.todo = {f \in File : files[panel.dir][f] # Missing}
    BY <1>1, <2>1, RegistryFacts DEF Requests
  <2>3. \A g \in File \ panel'.todo : files'[panel.dir][g] = panel'.as[g]
    BY <2>1, <2>2, RegistryFacts DEF Missing
  <2>4. files[panel.dir]["team"] = Missing
    BY <1>4, <2>1 DEF NotATeam, Worked, File
  <2> QED  BY <1>1, <2>1, <2>2, <2>3, <2>4, RequestWorks
<1> QED  BY <1>2, <1>3, <1>4

(* It ends: with an answer, which is what every directory that bears the   *)
(* id holds if it says anything of the id, or without one.                 *)
LEMMA RequestEnds == ASSUME RegistryInv, Answers \/ Abandoned PROVE RegistryInv'
<1> USE DEF RegistryInv
<1> USE RegistryFacts
<1> DEFINE d == panel.dir
<1>1. /\ panel' = Quiet /\ panel.pc # "idle" /\ files' = files
      /\ written' = written /\ reading' = reading /\ cache' = cache
      /\ d \in Dir /\ panel \in Requests /\ panel.as \in Holds
  BY DEF Answers, Abandoned, Promised, RegistryTypes, Requests
<1>2. Quiet \in Requests /\ Quiet.pc = "idle" /\ Quiet.dir = NoEntry
  BY DEF Quiet, Requests
<1>3. \/ reported' = reported
      \/ /\ panel.id # NoEntry /\ panel.id \in Key /\ panel.todo = {}
         /\ reported' = [reported EXCEPT ![panel.id] = panel.as]
         /\ Bearing(panel.id, present \ {d}) = {}
  BY <1>1 DEF Answers, Abandoned, Succeeds, Requests
<1>4. /\ reported' \in [Key -> Holds]
      /\ \A id \in Key : reported[id] # Unknown => reported'[id] = reported[id]
  BY <1>1, <1>3 DEF RegistryTypes, Promised
<1>5. panel.todo = {} => files[d] = panel.as
  <2> SUFFICES ASSUME panel.todo = {} PROVE files[d] = panel.as
    OBVIOUS
  <2>1. \A f \in File : files[d][f] = panel.as[f]
    BY <1>1 DEF Worked
  <2> QED  BY <1>1, <2>1, SameHolds DEF RegistryTypes
<1>6. /\ present' \subseteq present
      /\ \A e \in Dir \ present' : files[e] = Nothing
  <2>1. CASE panel.pc = "removing" /\ Answers
    <3>1. panel.as = Nothing /\ panel.todo = {} /\ present' = present \ {d}
      BY <2>1 DEF Answers, Worked
    <3> QED  BY <1>5, <3>1 DEF Worked
  <2>2. CASE present' = present
    BY <2>2 DEF Worked
  <2> QED  BY <2>1, <2>2 DEF Answers, Abandoned
<1>7. RegistryTypes'
  BY <1>1, <1>2, <1>4, <1>6 DEF RegistryTypes
<1>8. Numbered'
  BY <1>1, <1>2 DEF Numbered, Numbers, Loads, Parses, Valid
<1>9. Promised'
  <2>1. ASSUME NEW e \in Dir, Loads(files[e])
        PROVE  reported'[IdOf(files[e])] \in {Unknown, files[e]}
    <3>1. reported[IdOf(files[e])] \in {Unknown, files[e]} /\ IdOf(files[e]) \in Key
      BY <2>1, IdFacts DEF Promised
    <3>2. e \in present
      BY <1>7, <2>1, NothingIsNoTeam DEF Worked
    <3>3. CASE reported' = reported
      BY <3>1, <3>3
    <3>4. CASE reported' # reported
      <4>1. e # d => IdOf(files[e]) # panel.id
        BY <1>3, <2>1, <3>2, <3>4 DEF Bearing
      <4>2. CASE e = d
        <5>1. IdOf(files[e]) = panel.id
          BY <1>1, <2>1, <4>2 DEF Promised
        <5> QED  BY <1>3, <1>5, <3>1, <3>4, <4>2, <5>1 DEF RegistryTypes
      <4>3. CASE e # d
        BY <1>3, <3>1, <3>4, <4>1, <4>3 DEF RegistryTypes
      <4> QED  BY <4>2, <4>3
    <3> QED  BY <3>3, <3>4
  <2> QED  BY <1>1, <1>2, <2>1 DEF Promised, Loads, Parses, Valid, IdOf
<1>10. Worked'
  BY <1>1, <1>2, <1>6 DEF Worked
<1>11. \A id \in reading.trust : reported'[id] = reported[id] /\ reported[id] # Unknown
  BY <1>4 DEF ReadSoFar, RegistryTypes, Selections
<1>12. ReadSoFar'
  BY <1>1, <1>11 DEF ReadSoFar, IdOf
<1>13. ReportedIsTaken'
  BY <1>1, <1>11 DEF ReportedIsTaken, IdOf
<1> QED  BY <1>7, <1>8, <1>9, <1>10, <1>12, <1>13

LEMMA ResolvedFacts ==
    ASSUME NEW id, NEW d \in Resolves(id)
    PROVE  d \in present /\ Loads(files[d]) /\ IdOf(files[d]) = id
BY DEF Resolves, Bearing

(* The definition that was added last, and is not in any directory yet.    *)
LEMMA AddedFacts ==
    ASSUME RegistryTypes, Grows, Len(written') = Len(written) + 1,
           NEW id \in Key, written'[Len(written) + 1].id = id, NEW x \in Holds,
           x["team"] \in {Missing, Len(written) + 1}
    PROVE  Numbers(x["team"])' /\ (Loads(x)' => IdOf(x)' = id)
<1>1. DOMAIN written' = 1..Len(written') /\ Len(written) \in Nat
  BY DEF RegistryTypes, Grows
<1> QED  BY <1>1 DEF Numbers, Loads, Parses, Valid, IdOf, Missing

LEMMA OpeningKeeps ==
    ASSUME RegistryInv, Constructed, NEW id \in Key, NEW d \in Home,
           Grows, Len(written') = Len(written) + 1, written'[Len(written) + 1].id = id,
           Len(written) <= MaxWrites,
           Loads(files[d]) => IdOf(files[d]) = id,
           StartsWriting(id, d), UNCHANGED cache
    PROVE  RegistryInv'
<1> USE RegistryFacts
<1>n. PICK n \in Nat : n = Len(written) + 1
  BY DEF RegistryInv, RegistryTypes
<1> DEFINE as == AllOf(n)
           request == [pc |-> "writing", id |-> id, dir |-> d, todo |-> File, as |-> as]
<1>1. /\ files \in [Dir -> Holds] /\ d \in Dir /\ Opened \in Nat /\ Len(written) + 1 \in Nat
      /\ present \subseteq Dir /\ RegistryTypes
  BY DEF RegistryInv, RegistryTypes, Opened
<1>2. files' = [files EXCEPT ![d]["team"] = Opened] /\ present' = present \cup {d}
      /\ Begins(request)
  BY <1>n DEF StartsWriting
<1>3. /\ files' \in [Dir -> Holds] /\ \A e \in Dir \ {d} : files'[e] = files[e]
      /\ files'[d]["team"] = Opened
  BY <1>1, <1>2 DEF Holds, File
<1>4. /\ as \in Holds /\ as["team"] = n
      /\ request \in Requests /\ request.dir = d /\ request.pc = "writing"
      /\ request.todo = File /\ request.id = id /\ request.as = as
  BY <1>1 DEF Requests, AllOf, File
<1>5. /\ present' \subseteq Dir /\ present \subseteq present' /\ d \in present'
      /\ \A f \in File \ request.todo : files'[d][f] = request.as[f]
  BY <1>1, <1>2, <1>4
<1>6. Numbers(files[d]["team"])' /\ ~Loads(files[d])'
  <2>1. DOMAIN written' = 1..Len(written') /\ Len(written') <= MaxWrites + 1 /\ Len(written') \in Nat
    BY DEF Grows
  <2> QED  BY <1>3, <2>1 DEF Numbers, Loads, Parses, Opened
<1>7. Numbers(as["team"])' /\ (Loads(as)' => IdOf(as)' = id)
  BY <1>n, <1>1, <1>4, AddedFacts
<1> HIDE DEF request
<1>8. Numbers(request.as["team"])' /\ (Loads(request.as)' => IdOf(request.as)' = request.id)
  BY <1>4, <1>7 DEF Numbers, Loads, Parses, Valid, IdOf
<1>9. /\ request.pc = "removing" => request.as = Nothing
      /\ Loads(files[d]) => IdOf(files[d]) = request.id
      /\ Loads(files[d])' => IdOf(files[d])' = request.id
      /\ request.id \in Key /\ request.pc # "idle"
  BY <1>4, <1>6
<1> QED  BY <1>1, <1>2, <1>3, <1>4, <1>5, <1>6, <1>8, <1>9, RequestBegins

LEMMA RequestStarts ==
    ASSUME RegistryInv,
           \/ \E d \in Home, enabled \in BOOLEAN : Create(d, enabled)
           \/ \E id \in Key, enabled \in BOOLEAN : Update(id, enabled)
           \/ \E id \in Key : Delete(id)
           \/ \E d \in Home, id \in Key, source \in Source : Install(d, id, source)
    PROVE  RegistryInv'
<1> USE RegistryFacts
<1>1. RegistryTypes /\ ~Loads(Nothing) /\ \A d \in Dir : Numbers(files[d]["team"])
  BY NothingIsNoTeam DEF RegistryInv, Numbered
<1>2. ASSUME NEW d \in Home, NEW enabled \in BOOLEAN, Create(d, enabled) PROVE RegistryInv'
  <2>1. PICK reads \in Reads : Defines(d, enabled, reads)
    BY <1>2 DEF Create, DefinesValid
  <2>2. ~Loads(files[d])
    BY <1>1, <1>2 DEF Create, MayCreate, RegistryInv, Worked
  <2>3. d \in Key
    BY DEF Home
  <2> QED  BY <1>1, <1>2, <2>1, <2>2, <2>3, DefinitionAdded, OpeningKeeps DEF Create
<1>3. ASSUME NEW id \in Key, NEW enabled \in BOOLEAN, Update(id, enabled) PROVE RegistryInv'
  <2>1. PICK d \in Resolves(id) : Writable(d) /\ DefinesValid(id, enabled) /\ StartsWriting(id, d)
    BY <1>3 DEF Update
  <2>2. PICK reads \in Reads : Defines(id, enabled, reads)
    BY <2>1 DEF DefinesValid
  <2>3. d \in Home /\ IdOf(files[d]) = id
    BY <2>1, ResolvedFacts DEF Writable
  <2>4. Constructed /\ UNCHANGED cache
    BY <1>3 DEF Update
  <2> QED  BY <1>1, <2>1, <2>2, <2>3, <2>4, DefinitionAdded, OpeningKeeps
<1>4. ASSUME NEW id \in Key, Delete(id) PROVE RegistryInv'
  <2> DEFINE Request(d) == [pc |-> "removing", id |-> id, dir |-> d, as |-> Nothing,
                            todo |-> {f \in File : files[d][f] # Missing}]
  <2>1. PICK d \in Dir : d \in Resolves(id) /\ Begins(Request(d))
    BY <1>4 DEF Delete, Writable
  <2>2. d \in present /\ IdOf(files[d]) = id
    BY <2>1, ResolvedFacts
  <2>3. PICK request \in Requests : request = Request(d)
    BY <2>2 DEF Requests, Missing
  <2>4. /\ request.dir = d /\ request.pc = "removing" /\ request.as = Nothing /\ request.id = id
        /\ \A f \in File \ request.todo : files[d][f] = Nothing[f]
    BY <2>3 DEF Missing
  <2>5. Constructed /\ UNCHANGED <<files, present, written, cache>> /\ Begins(request)
    BY <1>4, <2>1, <2>3 DEF Delete
  <2>6. Grows
    BY <1>1, <2>5 DEF Grows, RegistryTypes
  <2>7. /\ Loads(files[d])' => IdOf(files[d])' = request.id
        /\ Numbers(files[d]["team"])'
    BY <1>1, <2>2, <2>4, <2>5 DEF Loads, Parses, Valid, IdOf, Numbers
  <2>8. Numbers(request.as["team"])' /\ (Loads(request.as)' => IdOf(request.as)' = request.id)
    <3>1. Numbers(request.as["team"]) /\ ~Loads(request.as)
      BY <1>1, <2>4 DEF Numbers, File, RegistryTypes
    <3> QED  BY <2>5, <3>1 DEF Loads, Parses, Valid, IdOf, Numbers
  <2>9. files' \in [Dir -> Holds] /\ present' \subseteq Dir
    BY <1>1, <2>5 DEF RegistryTypes
  <2>10. /\ present \subseteq present' /\ d \in present'
         /\ \A e \in Dir \ {d} : files'[e] = files[e]
         /\ \A f \in File \ request.todo : files'[d][f] = request.as[f]
         /\ request.id \in Key /\ request.pc # "idle" /\ UNCHANGED cache
         /\ Loads(files[d]) => IdOf(files[d]) = request.id
         /\ request.pc = "removing" => request.as = Nothing
    BY <2>2, <2>4, <2>5
  <2> HIDE DEF Request
  <2> QED  BY <2>4, <2>5, <2>6, <2>7, <2>8, <2>9, <2>10, RequestBegins
<1>5. ASSUME NEW d \in Home, NEW id \in Key, NEW source \in Source, Install(d, id, source)
      PROVE  RegistryInv'
  <2>1. source.reads \in Reads /\ source.has \subseteq File
    BY DEF Source, Reads, File
  <2>2. /\ Grows /\ Len(written) + 1 \in Nat /\ Len(written') = Len(written) + 1
        /\ written'[Len(written) + 1].id = id /\ Len(written) <= MaxWrites
    BY <1>1, <1>5, <2>1, DefinitionAdded DEF Install
  <2>3. d \in Dir /\ d \notin present /\ files[d] = Nothing
    BY <1>5 DEF Install, RegistryInv, Worked
  <2>4. PICK n \in Nat : n = Len(written) + 1
    BY <2>2
  <2>a. PICK as \in Holds : as = [f \in File |-> IF f \in source.has THEN n ELSE Missing]
    BY DEF Holds, Missing
  <2> DEFINE request == [pc |-> "copying", id |-> id, dir |-> d, todo |-> source.has, as |-> as]
  <2>5. /\ as["team"] \in {Missing, n} /\ request \in Requests
        /\ request.dir = d /\ request.pc = "copying" /\ request.id = id /\ request.as = as
        /\ \A f \in File \ request.todo : files[d][f] = request.as[f]
    BY <2>1, <2>3, <2>a DEF Requests, Missing, Home, File
  <2>6. Constructed /\ Begins(request) /\ present' = present \cup {d}
          /\ UNCHANGED <<files, cache>>
    BY <1>5, <2>4, <2>a DEF Install
  <2>7. Numbers(as["team"])' /\ (Loads(as)' => IdOf(as)' = id)
    <3>1. as["team"] \in {Missing, Len(written) + 1} /\ RegistryTypes
      BY <1>1, <2>4, <2>5
    <3> HIDE DEF request
    <3> QED  BY <2>2, <3>1, AddedFacts
  <2> HIDE DEF request
  <2>8. Numbers(request.as["team"])' /\ (Loads(request.as)' => IdOf(request.as)' = request.id)
    BY <2>5, <2>7 DEF Numbers, Loads, Parses, Valid, IdOf
  <2>9. Numbers(files[d]["team"])' /\ ~Loads(files[d])' /\ ~Loads(files[d])
    <3>1. files'[d]["team"] = Missing /\ Missing = 0
      BY <2>3, <2>6 DEF File, Missing, Nothing
    <3>2. DOMAIN written' = 1..Len(written') /\ Len(written') \in Nat
      BY DEF Grows
    <3> QED  BY <1>1, <2>2, <2>3, <3>1, <3>2 DEF Loads, Parses, Valid, Numbers
  <2>10. files' \in [Dir -> Holds] /\ present' \subseteq Dir
    BY <1>1, <2>3, <2>6 DEF RegistryTypes
  <2>11. /\ present \subseteq present' /\ d \in present'
         /\ \A e \in Dir \ {d} : files'[e] = files[e]
         /\ \A f \in File \ request.todo : files'[d][f] = request.as[f]
         /\ request.id \in Key /\ request.pc # "idle"
         /\ Loads(files[d]) => IdOf(files[d]) = request.id
         /\ Loads(files[d])' => IdOf(files[d])' = request.id
         /\ request.pc = "removing" => request.as = Nothing
    BY <2>5, <2>6, <2>9
  <2> QED  BY <2>2, <2>3, <2>5, <2>6, <2>8, <2>9, <2>10, <2>11, RequestBegins
<1> QED  BY <1>2, <1>3, <1>4, <1>5

(* The worker only reads: what it has read of a directory it may trust     *)
(* is what the directory holds when it has read both files.                *)
LEMMA SelectionKeeps ==
    ASSUME RegistryInv, WorkerNext, ~\E f \in File : FileVanishes(f) PROVE RegistryInv'
<1> USE DEF RegistryInv
<1> USE RegistryFacts
<1>1. /\ reading \in Selections /\ files \in [Dir -> Holds] /\ cache \in Readings
           /\ present \subseteq Dir
      /\ reading.found \in Readings /\ reading.trust \subseteq Key
  BY DEF RegistryTypes, Selections
<1>2. UNCHANGED <<files, present, written, panel, reported>>
  BY DEF WorkerNext, SelectionBegins, ReadsTeam, SkipsTeam, ReadsRules, SelectionFails, Selects,
         RefreshEnds, SelectionEnds
<1>3. /\ Promised' /\ Worked'
      /\ (/\ \A e \in DOMAIN reading'.found : Loads(reading'.found[e])
          /\ cache' = cache \/ cache' = reading.found) => Numbered'
  BY <1>2 DEF Promised, Worked, Numbered, Numbers, Loads, Parses, Valid, IdOf
<1>4. NoSelection \in Selections
  BY DEF NoSelection, Selections
<1>5. CASE SelectionBegins
  <2>1. cache' = cache /\ reading' = [reading EXCEPT !.pc = "roots", !.left = present, !.found = <<>>,
                                  !.trust = {id \in Key : reported[id] # Unknown}]
    BY <1>5 DEF SelectionBegins
  <2>2. /\ reading' \in Selections /\ reading'.pc = "roots" /\ reading'.found = <<>>
        /\ reading'.trust = {id \in Key : reported[id] # Unknown}
    BY <1>1, <2>1 DEF Selections
  <2>3. RegistryTypes'
    BY <1>2, <2>1, <2>2 DEF RegistryTypes
  <2>4. ReadSoFar' /\ ReportedIsTaken'
    BY <1>2, <2>2 DEF ReadSoFar, ReportedIsTaken
  <2> QED  BY <1>3, <2>1, <2>2, <2>3, <2>4
<1>6. ASSUME NEW d \in Dir, ReadsTeam(d) PROVE RegistryInv'
  <2> DEFINE half == [Nothing EXCEPT !["team"] = files[d]["team"]]
             found == WithTeam(reading.found, d)
  <2>1. /\ reading' = [reading EXCEPT !.pc = "dir", !.dir = d, !.left = @ \ {d}, !.found = found]
        /\ cache' = cache /\ reading.pc = "roots"
    BY <1>6 DEF ReadsTeam, NextDir
  <2>2. half \in Holds /\ half["team"] = files[d]["team"] /\ Loads(half)
    <3>1. half \in Holds /\ half["team"] = files[d]["team"]
      <4>1. Nothing \in [File -> Nat] /\ files[d]["team"] \in Nat /\ "team" \in File
        BY <1>1 DEF Holds, File
      <4> QED  BY <4>1 DEF Holds
    <3> QED  BY <1>6, <3>1 DEF ReadsTeam, Loads, Parses, Valid
  <2>3. /\ DOMAIN found = {d} \cup DOMAIN reading.found /\ found[d] = half
        /\ \A e \in DOMAIN reading.found \ {d} : found[e] = reading.found[e]
        /\ found \in Readings
    <3>1. found = [e \in {d} \cup DOMAIN reading.found |-> IF e = d THEN half ELSE reading.found[e]]
      BY DEF WithTeam
    <3>2. PICK D \in SUBSET Dir : reading.found \in [D -> Holds]
      BY <1>1 DEF Readings
    <3>3. found \in [{d} \cup D -> Holds] /\ {d} \cup D \in SUBSET Dir
      BY <2>2, <3>1, <3>2
    <3>4. found \in Readings
      BY <3>3 DEF Readings
    <3> QED  BY <3>1, <3>4
  <2> HIDE DEF half, found
  <2>4. /\ reading' \in Selections /\ reading'.pc = "dir" /\ reading'.dir = d
        /\ reading'.found = found /\ reading'.trust = reading.trust
    BY <1>1, <2>1, <2>3 DEF Selections
  <2>5. RegistryTypes'
    BY <1>2, <2>1, <2>4 DEF RegistryTypes
  <2>6. ReadSoFar'
    BY <1>2, <2>1, <2>2, <2>3, <2>4 DEF ReadSoFar, IdOf
  <2>7. ReportedIsTaken'
    BY <2>4 DEF ReportedIsTaken
  <2>8. \A e \in DOMAIN found : Loads(found[e])
    BY <2>2, <2>3 DEF Numbered
  <2> QED  BY <1>3, <2>1, <2>4, <2>5, <2>6, <2>7, <2>8
<1>7. ASSUME NEW d \in Dir, SkipsTeam(d) PROVE RegistryInv'
  <2>1. reading' = [reading EXCEPT !.left = @ \ {d}] /\ cache' = cache
    BY <1>7 DEF SkipsTeam
  <2>2. /\ reading' \in Selections /\ reading'.pc = reading.pc /\ reading'.dir = reading.dir
        /\ reading'.found = reading.found /\ reading'.trust = reading.trust
    BY <1>1, <2>1 DEF Selections
  <2>3. RegistryTypes'
    BY <1>2, <2>1, <2>2 DEF RegistryTypes
  <2>4. ReadSoFar' /\ ReportedIsTaken'
    BY <1>2, <2>1, <2>2 DEF ReadSoFar, ReportedIsTaken, IdOf
  <2> QED  BY <1>3, <2>1, <2>2, <2>3, <2>4 DEF Numbered
<1>8. CASE ReadsRules
  <2> DEFINE d == reading.dir
             whole == [reading.found[d] EXCEPT !["rules"] = files[d]["rules"]]
             found == [reading.found EXCEPT ![d] = whole]
  <2>1. /\ reading' = [reading EXCEPT !.found[d]["rules"] = files[d]["rules"], !.pc = "roots"]
        /\ cache' = cache /\ reading.pc = "dir"
    BY <1>8 DEF ReadsRules
  <2>2. PICK D \in SUBSET Dir : reading.found \in [D -> Holds]
    BY <1>1 DEF Readings
  <2>3. d \in D /\ d \in Dir
    BY <2>1, <2>2 DEF ReadSoFar
  <2>4. whole \in Holds /\ whole["rules"] = files[d]["rules"]
          /\ whole["team"] = reading.found[d]["team"]
    <3>1. reading.found[d] \in [File -> Nat] /\ files[d]["rules"] \in Nat
      <4>1. reading.found[d] \in Holds /\ files[d] \in Holds /\ "rules" \in File
        BY <1>1, <2>2, <2>3 DEF File
      <4> QED  BY <4>1 DEF Holds
    <3> QED  BY <3>1 DEF Holds, File
  <2>5. /\ found \in Readings /\ DOMAIN found = DOMAIN reading.found /\ found[d] = whole
        /\ \A e \in DOMAIN reading.found \ {d} : found[e] = reading.found[e]
    <3> HIDE DEF whole
    <3>1. found \in [D -> Holds]
      BY <2>2, <2>4
    <3> QED  BY <2>2, <2>3, <3>1 DEF Readings
  <2>6. /\ reading' \in Selections /\ reading'.pc = "roots" /\ reading'.dir = d
        /\ reading'.found = found /\ reading'.trust = reading.trust
    BY <1>1, <2>1, <2>5 DEF Selections
  <2> HIDE DEF whole, found
  <2>7. RegistryTypes'
    BY <1>2, <2>1, <2>6 DEF RegistryTypes
  <2>a. \A e \in DOMAIN found : found[e]["team"] = reading.found[e]["team"] /\ Loads(found[e])
    BY <2>4, <2>5 DEF Numbered, Loads, Parses, Valid
  <2>8. ReadSoFar'
    <3>1. \A id \in reading.trust : reported'[id] # Unknown
      BY <1>2 DEF ReadSoFar
    <3>2. ASSUME NEW e \in DOMAIN found, IdOf(found[e]) \in reading.trust
          PROVE  found[e]["team"] = files'[e]["team"] /\ found[e]["rules"] = files'[e]["rules"]
      <4>1. files'[e] = files[e] /\ e \in DOMAIN reading.found
              /\ IdOf(reading.found[e]) \in reading.trust
        BY <1>2, <2>5, <2>a, <3>2 DEF IdOf
      <4>2. reading.found[e]["team"] = files[e]["team"]
            /\ (e # d => reading.found[e]["rules"] = files[e]["rules"])
        BY <2>1, <4>1 DEF ReadSoFar
      <4>3. CASE e = d
        BY <2>4, <2>5, <4>1, <4>2, <4>3
      <4>4. CASE e # d
        BY <2>5, <4>1, <4>2, <4>4
      <4> QED  BY <4>3, <4>4
    <3> QED  BY <1>2, <2>1, <2>6, <3>1, <3>2 DEF ReadSoFar, IdOf
  <2>9. ReportedIsTaken'
    BY <2>6 DEF ReportedIsTaken
  <2> QED  BY <1>3, <2>1, <2>6, <2>7, <2>8, <2>9, <2>a
<1>9. CASE RefreshEnds \/ SelectionEnds \/ \E d \in Dir : SelectionFails(d)
  <2>1. reading' = NoSelection /\ (cache' = cache \/ cache' = reading.found)
    BY <1>9 DEF RefreshEnds, Refreshed, SelectionEnds, SelectionFails
  <2>2. RegistryTypes'
    BY <1>1, <1>2, <1>4, <2>1 DEF RegistryTypes
  <2>3. ReadSoFar' /\ ReportedIsTaken'
    BY <2>1 DEF ReadSoFar, ReportedIsTaken, NoSelection
  <2> QED  BY <1>3, <2>1, <2>2, <2>3 DEF NoSelection
<1>10. ASSUME NEW d \in Dir \cup {NoEntry}, Selects(d) PROVE RegistryInv'
  <2>1. /\ reading.pc = "roots" /\ cache' = reading.found /\ d \in Best(cache')
        /\ reading' = [reading EXCEPT !.pc = "taken", !.found = <<>>, !.dir = d]
    BY <1>10 DEF Selects, Refreshed
  <2>2. /\ reading' \in Selections /\ reading'.pc = "taken" /\ reading'.dir = d
        /\ reading'.trust = reading.trust /\ reading'.found = <<>>
    BY <1>1, <2>1 DEF Selections
  <2>3. RegistryTypes'
    BY <1>1, <1>2, <2>1, <2>2 DEF RegistryTypes
  <2>a. d # NoEntry => d \in DOMAIN reading.found
    BY <2>1 DEF Best, Enabled, Heads
  <2>4. ReadSoFar'
    BY <1>2, <2>1, <2>2, <2>a DEF ReadSoFar
  <2>5. ReportedIsTaken'
    <3> SUFFICES ASSUME d # NoEntry, IdOf(cache'[d]) \in reading.trust
                 PROVE  cache'[d] = reported[IdOf(cache'[d])]
      BY <1>2, <2>2 DEF ReportedIsTaken, IdOf
    <3>1. d \in Dir /\ d \in DOMAIN reading.found /\ Loads(reading.found[d])
      BY <1>1, <2>a DEF Numbered, Readings
    <3>2. \A f \in File : reading.found[d][f] = files[d][f]
      BY <2>1, <3>1 DEF ReadSoFar, File
    <3>3. reading.found[d] = files[d]
      <4>1. reading.found[d] \in Holds /\ files[d] \in Holds
        BY <1>1, <3>1 DEF Readings
      <4> QED  BY <3>2, <4>1, SameHolds
    <3>4. reported[IdOf(files[d])] \in {Unknown, files[d]}
      BY <3>1, <3>3 DEF Promised
    <3>5. reported[IdOf(files[d])] # Unknown
      BY <2>1, <3>3 DEF ReadSoFar
    <3> QED  BY <2>1, <3>3, <3>4, <3>5
  <2> QED  BY <1>3, <2>1, <2>2, <2>3, <2>4, <2>5
<1> QED  BY <1>5, <1>6, <1>7, <1>8, <1>9, <1>10 DEF WorkerNext

LEMMA RegistryInvStep == RegistryInv /\ [RegistryNext]_registryVars => RegistryInv'
<1> SUFFICES ASSUME RegistryInv, [RegistryNext]_registryVars PROVE RegistryInv'
  OBVIOUS
<1>1. CASE PanelNext
  BY <1>1, RequestStarts, RequestMoves, RequestEnds DEF PanelNext
<1>2. CASE WorkerNext
  BY <1>2, SelectionKeeps, RequestMoves
<1>3. CASE UNCHANGED registryVars
  BY <1>3 DEF registryVars, RegistryInv, RegistryTypes, Numbered, Numbers, Promised, Worked, ReadSoFar,
              ReportedIsTaken, Loads, Parses, Valid, IdOf
<1> QED  BY <1>1, <1>2, <1>3 DEF RegistryNext

THEOREM RegistryHolds == RegistrySpec => []RegistryInv
BY RegistryInvInit, RegistryInvStep, PTL DEF RegistrySpec

(* What the panel has reported of an id that one directory bore is what a  *)
(* selection that begins later runs under that id, or nothing, whatever    *)
(* other requests and failures go between its reads, until a request for   *)
(* the id begins.                                                          *)
THEOREM ReportsAreTaken == RegistrySpec => []ReportedIsTaken
<1>1. RegistryInv => ReportedIsTaken
  BY DEF RegistryInv
<1> QED  BY RegistryHolds, <1>1, PTL

(* No request changes a team but one for its id, in the install directory. *)
THEOREM InstalledTeamsAreKept == RegistrySpec => TeamsAreKept
<1> DEFINE Kept == \A d \in Dir :
                     panel.pc = "idle" /\ panel'.dir = d /\ Loads(files[d]) =>
                        d \in Home /\ panel'.id = IdOf(files[d])
<1>1. RegistryInv /\ [RegistryNext]_registryVars => [Kept]_registryVars
  <2> SUFFICES ASSUME RegistryInv, RegistryNext, NEW d \in Dir,
                      panel.pc = "idle", panel'.dir = d, Loads(files[d])
               PROVE  d \in Home /\ panel'.id = IdOf(files[d])
    OBVIOUS
  <2>1. panel' # panel /\ panel'.dir # NoEntry
    BY RegistryFacts DEF RegistryInv, Promised
  <2>2. d \in present
    BY NothingIsNoTeam DEF RegistryInv, Worked
  <2>3. ASSUME NEW e \in Home, NEW enabled \in BOOLEAN, Create(e, enabled) PROVE FALSE
    <3>1. panel'.dir = e /\ e \notin present
      BY <2>3 DEF Create, MayCreate, StartsWriting, Begins
    <3> QED  BY <2>2, <3>1
  <2>4. ASSUME NEW e \in Home, NEW id \in Key, NEW source \in Source, Install(e, id, source) PROVE FALSE
    <3>1. panel'.dir = e /\ e \notin present
      BY <2>4 DEF Install, Begins
    <3> QED  BY <2>2, <3>1
  <2>5. ASSUME NEW id \in Key, Delete(id) \/ \E enabled \in BOOLEAN : Update(id, enabled)
        PROVE  d \in Home /\ panel'.id = IdOf(files[d])
    <3>1. PICK e \in Resolves(id) : Writable(e) /\ panel'.id = id /\ panel'.dir = e
      BY <2>5 DEF Delete, Update, StartsWriting, Begins
    <3> QED  BY <3>1, ResolvedFacts DEF Writable
  <2>6. ASSUME Answers \/ Abandoned \/ NotATeam \/ \E f \in File : Write(f) \/ Remove(f) \/ Copy(f)
        PROVE  FALSE
    BY <2>6 DEF Answers, Abandoned, NotATeam, Write, Remove, Removes, Copy
  <2>7. ~WorkerNext
    BY <2>1 DEF WorkerNext, SelectionBegins, ReadsTeam, SkipsTeam, ReadsRules, SelectionFails, Selects,
              FileVanishes, Removes, RefreshEnds, SelectionEnds
  <2> QED  BY <2>3, <2>4, <2>5, <2>6, <2>7 DEF RegistryNext, PanelNext
<1> QED  BY RegistryHolds, <1>1, PTL DEF RegistrySpec, TeamsAreKept

-----------------------------------------------------------------------------
(* A run of a team.                                                        *)

Busy == {"ask", "call", "final"}
Whole == {"ok", "cut"}

AgentRec == [pc : {"none"} \cup Busy \cup Returned, iter : Nat, left : Nat,
             task : Task, home : Workspaces \cup {NoWorkspace},
             last : Tools \cup {NoTool}, lastIn : Workspaces \cup {NoWorkspace}]
OrchFields == [pc : {"none", "ask", "call", "agent", "final"} \cup OrchEnded,
               iter : Nat, left : Nat, seq : Agent \cup {NoOne}, at : Agent \cup {NoOne}]
OrchRec == {o \in OrchFields : o.pc = "agent" => o.at \in Agent}
RunRec == [kind : TeamTypes \cup {"dynamic", "none"}, pc : Steps, attempt : Nat,
           next : Agent, able : BOOLEAN, verdict : {"completed", "failed"},
           error : BOOLEAN]

Types ==
    /\ agent \in [Agent -> AgentRec]
    /\ active \in [Task -> Workspaces \cup {NoWorkspace}]
    /\ orch \in OrchRec
    /\ run \in RunRec

(* Who is at work, and in which task: the next member of a chain, members  *)
(* of a parallel team each in its own, or the agent that the orchestrator  *)
(* waits for.                                                              *)
Placed(a) ==
    /\ run.kind = "parallel" => agent[a].task = a
    /\ run.kind # "parallel" => agent[a].task = Main
    /\ run.kind = "chain" => a = run.next
    /\ run.kind \notin Structured => orch.pc = "agent" /\ orch.at = a
Alone == \A a \in Agent : agent[a].pc \in Busy => Placed(a)

(* The workspace of a task is that of the agent at work in it.             *)
AtHome == \A a \in Agent : agent[a].pc \in Busy => active[agent[a].task] = agent[a].home

(* Before the work there are no agents.                                    *)
Fresh ==
    run.pc \in {"idle", "started"} =>
        \A a \in Agent : agent[a].pc = "none" /\ agent[a].last = NoTool

(* The member whose command is run is done.                                *)
Checked == run.pc = "check" => agent[run.next].pc \notin Busy

AgentInv == Types /\ Alone /\ AtHome /\ Fresh /\ Checked /\ RedOnlyAtHome

USE AgentAssumption, OrchestratorAssumption, TeamAssumption

-----------------------------------------------------------------------------
(* Steps of one agent.                                                     *)

(* A call that the guard let pass was made in the workspace of its task.   *)
Called(a, r) ==
    /\ r.last \in Tools
    /\ r.lastIn = active[agent[a].task]
    /\ GuardPasses(r.last, r.lastIn, FALSE)

(* What a step does to its agent and what it leaves alone.                 *)
Moves(a, r) ==
    /\ agent[a].pc \in Busy
    /\ r \in AgentRec /\ r.pc # "none"
    /\ r.task = agent[a].task /\ r.home = agent[a].home
    /\ \/ r.last = agent[a].last /\ r.lastIn = agent[a].lastIn
       \/ Called(a, r)
    /\ agent' = [agent EXCEPT ![a] = r]
    /\ UNCHANGED <<mode, active>>

LEMMA AfterCallType ==
    ASSUME NEW r \in AgentRec
    PROVE  /\ AfterCall(r) \in AgentRec /\ AfterCall(r).pc \in {r.pc, "ask", "final"}
           /\ AfterCall(r).task = r.task /\ AfterCall(r).home = r.home
           /\ AfterCall(r).last = r.last /\ AfterCall(r).lastIn = r.lastIn
<1>1. CASE r.left > 1
  BY <1>1 DEF AfterCall, AgentRec
<1>2. CASE ~(r.left > 1) /\ r.iter + 1 < AgentLimit
  <2> DEFINE q == [r EXCEPT !.left = 0]
             p == [q EXCEPT !.iter = r.iter + 1]
  <2>1. q \in AgentRec /\ q.iter = r.iter /\ q.task = r.task /\ q.home = r.home
        /\ q.last = r.last /\ q.lastIn = r.lastIn
    BY DEF AgentRec
  <2>2. p \in AgentRec /\ p.task = r.task /\ p.home = r.home
        /\ p.last = r.last /\ p.lastIn = r.lastIn
    <3> HIDE DEF q
    <3> QED  BY <2>1 DEF AgentRec
  <2>3. AfterCall(r) = [p EXCEPT !.pc = "ask"]
    BY <1>2 DEF AfterCall
  <2> HIDE DEF p
  <2> QED  BY <2>2, <2>3 DEF AgentRec, Busy
<1>3. CASE ~(r.left > 1) /\ ~(r.iter + 1 < AgentLimit)
  <2> DEFINE q == [r EXCEPT !.left = 0]
             p == [q EXCEPT !.iter = r.iter + 1]
  <2>1. q \in AgentRec /\ q.iter = r.iter /\ q.task = r.task /\ q.home = r.home
        /\ q.last = r.last /\ q.lastIn = r.lastIn
    BY DEF AgentRec
  <2>2. p \in AgentRec /\ p.task = r.task /\ p.home = r.home
        /\ p.last = r.last /\ p.lastIn = r.lastIn
    <3> HIDE DEF q
    <3> QED  BY <2>1 DEF AgentRec
  <2>3. AfterCall(r) = [p EXCEPT !.pc = "final"]
    BY <1>3 DEF AfterCall
  <2> HIDE DEF p
  <2> QED  BY <2>2, <2>3 DEF AgentRec, Busy
<1> QED  BY <1>1, <1>2, <1>3

LEMMA StepMoves ==
    ASSUME NEW a \in Agent, Types, AgentStep(a)
    PROVE  \E r : Moves(a, r)
<1>0. agent[a] \in AgentRec
  BY DEF Types
<1>1. ASSUME NEW r, r \in AgentRec, r.pc # "none", agent[a].pc \in Busy,
             r.task = agent[a].task, r.home = agent[a].home,
             \/ r.last = agent[a].last /\ r.lastIn = agent[a].lastIn
             \/ Called(a, r),
             agent' = [agent EXCEPT ![a] = r], UNCHANGED <<mode, active>>
      PROVE  \E q : Moves(a, q)
  BY <1>1 DEF Moves
<1>2. CASE AgentAnswers(a) \/ AgentRaises(a) \/ AgentIsCut(a)
  <2>1. PICK pc \in Returned : agent' = [agent EXCEPT ![a].pc = pc]
    BY <1>2 DEF AgentAnswers, AgentRaises, AgentIsCut, Returned
  <2> DEFINE r == [agent[a] EXCEPT !.pc = pc]
  <2>2. r \in AgentRec /\ r.pc # "none" /\ r.task = agent[a].task
        /\ r.home = agent[a].home /\ r.last = agent[a].last
        /\ r.lastIn = agent[a].lastIn
    BY <1>0 DEF AgentRec, Returned
  <2>3. agent' = [agent EXCEPT ![a] = r]
    BY <2>1
  <2>4. agent[a].pc \in Busy /\ UNCHANGED <<mode, active>>
    BY <1>2 DEF AgentAnswers, AgentRaises, AgentIsCut, Busy
  <2> HIDE DEF r
  <2> QED  BY <1>1, <2>2, <2>3, <2>4
<1>3. ASSUME NEW n \in 1..MaxCalls, AgentCalls(a, n) PROVE \E q : Moves(a, q)
  <2> DEFINE q == [agent[a] EXCEPT !.pc = "call"]
             r == [q EXCEPT !.left = n]
  <2>0. q \in AgentRec /\ q.pc = "call" /\ q.task = agent[a].task
        /\ q.home = agent[a].home /\ q.last = agent[a].last
        /\ q.lastIn = agent[a].lastIn /\ n \in Nat
    BY <1>0 DEF AgentRec, Busy
  <2>1. r \in AgentRec /\ r.pc # "none" /\ r.task = agent[a].task
        /\ r.home = agent[a].home /\ r.last = agent[a].last
        /\ r.lastIn = agent[a].lastIn
    <3> HIDE DEF q
    <3> QED  BY <2>0 DEF AgentRec
  <2>2. agent' = [agent EXCEPT ![a] = r]
    BY <1>3 DEF AgentCalls
  <2>3. agent[a].pc \in Busy /\ UNCHANGED <<mode, active>>
    BY <1>3 DEF AgentCalls, Busy
  <2> HIDE DEF r
  <2> QED  BY <1>1, <2>1, <2>2, <2>3
<1>4. ASSUME NEW t \in Tools, ToolRuns(a, t) PROVE \E q : Moves(a, q)
  <2> DEFINE c == AfterCall(agent[a])
             r == [c EXCEPT !.last = t, !.lastIn = active[agent[a].task]]
  <2>0. /\ c \in AgentRec /\ c.pc # "none"
        /\ c.task = agent[a].task /\ c.home = agent[a].home
    BY <1>0, <1>4, AfterCallType DEF ToolRuns
  <2>1. active[agent[a].task] \in Workspaces \cup {NoWorkspace}
    BY <1>0 DEF Types, AgentRec
  <2>2. agent' = [agent EXCEPT ![a] = r]
    BY <1>4 DEF ToolRuns
  <2>3. /\ r \in AgentRec /\ r.pc # "none" /\ r.task = agent[a].task
        /\ r.home = agent[a].home /\ r.last = t
        /\ r.lastIn = active[agent[a].task]
    <3> HIDE DEF c
    <3> QED  BY <2>0, <2>1 DEF AgentRec
  <2>4. agent[a].pc \in Busy /\ UNCHANGED <<mode, active>>
        /\ GuardPasses(t, active[agent[a].task], FALSE)
    BY <1>4 DEF ToolRuns, Busy
  <2> HIDE DEF r
  <2>5. Called(a, r)
    BY <2>3, <2>4 DEF Called
  <2> QED  BY <1>1, <2>2, <2>3, <2>4, <2>5
<1>5. ASSUME NEW t \in Tools, ToolRefused(a, t) PROVE \E q : Moves(a, q)
  <2> DEFINE r == AfterCall(agent[a])
  <2>1. /\ r \in AgentRec /\ r.pc # "none"
        /\ r.task = agent[a].task /\ r.home = agent[a].home
        /\ r.last = agent[a].last /\ r.lastIn = agent[a].lastIn
    BY <1>0, <1>5, AfterCallType DEF ToolRefused
  <2>2. agent' = [agent EXCEPT ![a] = r] /\ agent[a].pc \in Busy
        /\ UNCHANGED <<mode, active>>
    BY <1>5 DEF ToolRefused, Busy
  <2> HIDE DEF r
  <2> QED  BY <1>1, <2>1, <2>2
<1> QED  BY <1>2, <1>3, <1>4, <1>5 DEF AgentStep

-----------------------------------------------------------------------------
(* What keeps AgentInv.                                                    *)

LEMMA IdleFacts ==
    /\ Idle \in AgentRec /\ Idle.pc = "none" /\ Idle.last = NoTool
    /\ NoTool \notin Red /\ Main \in Task /\ Agent \subseteq Task
BY DEF Idle, AgentRec, Task

LEMMA MoveKeeps ==
    ASSUME NEW a \in Agent, NEW r, AgentInv, Moves(a, r),
           orch' = orch, run' = run, run.pc = "work"
    PROVE  AgentInv'
<1>1. /\ agent' \in [Agent -> AgentRec]
      /\ \A b \in Agent : agent'[b] = IF b = a THEN r ELSE agent[b]
      /\ active' = active /\ mode' = mode
  BY DEF AgentInv, Types, Moves
<1>2. agent[a].pc \in Busy /\ r.task = agent[a].task /\ r.home = agent[a].home
  BY DEF Moves
<1>3. active[agent[a].task] = agent[a].home
  BY <1>2 DEF AgentInv, AtHome
<1>4. Types'
  BY <1>1 DEF AgentInv, Types
<1>5. Alone'
  BY <1>1, <1>2 DEF AgentInv, Alone, Placed
<1>6. AtHome'
  BY <1>1, <1>2 DEF AgentInv, AtHome
<1>7. Fresh' /\ Checked'
  BY DEF Fresh, Checked
<1>8. RedOnlyAtHome'
  <2> SUFFICES ASSUME mode = "auto_approve_workspace",
                      NEW b \in Agent, agent'[b].last \in Red
               PROVE  /\ agent'[b].lastIn = agent'[b].home
                      /\ <<agent'[b].last, agent'[b].home>> \in Eligible
                      /\ AutoWorkspaces = {} \/ agent'[b].home \in AutoWorkspaces
    BY <1>1 DEF RedOnlyAtHome
  <2>1. CASE b # a \/ (r.last = agent[a].last /\ r.lastIn = agent[a].lastIn)
    BY <1>1, <1>2, <2>1 DEF AgentInv, RedOnlyAtHome
  <2>2. CASE b = a /\ Called(a, r)
    <3>1. r.last \in Red /\ r.lastIn = r.home
      BY <1>1, <1>2, <1>3, <2>2 DEF Called
    <3>2. AutoApproves(r.last, r.lastIn)
      BY <2>2, <3>1 DEF Called, GuardPasses
    <3> QED  BY <1>1, <2>2, <3>1, <3>2 DEF AutoApproves
  <2> QED  BY <2>1, <2>2 DEF Moves
<1> QED  BY <1>4, <1>5, <1>6, <1>7, <1>8 DEF AgentInv

(* An agent is started in a task where no other is at work.                *)
LEMMA StartKeeps ==
    ASSUME NEW a \in Agent, NEW task \in Task, NEW ws \in Workspaces,
           AgentInv, StartAgent(a, task, ws), mode' = mode,
           orch' \in OrchRec, run' \in RunRec, run'.pc = "work",
           \A b \in Agent : b # a /\ agent[b].pc \in Busy =>
               agent[b].task # task /\ Placed(b)',
           agent'[a].task = task => Placed(a)'
    PROVE  AgentInv'
<1> DEFINE r0 == [Idle EXCEPT !.pc = "ask"]
           r1 == [r0 EXCEPT !.task = task]
           r  == [r1 EXCEPT !.home = ws]
<1>1. r0 \in AgentRec /\ r0.pc = "ask" /\ r0.last = NoTool
  BY IdleFacts DEF AgentRec, Busy
<1>2. r1 \in AgentRec /\ r1.pc = "ask" /\ r1.last = NoTool /\ r1.task = task
  <2> HIDE DEF r0
  <2> QED  BY <1>1 DEF AgentRec
<1>3. r \in AgentRec /\ r.pc = "ask" /\ r.last = NoTool /\ r.task = task /\ r.home = ws
  <2> HIDE DEF r1
  <2> QED  BY <1>2 DEF AgentRec
<1>4. agent' = [agent EXCEPT ![a] = r]
  BY DEF StartAgent
<1> HIDE DEF r
<1>5. active' = [active EXCEPT ![task] = ws]
  BY DEF StartAgent, Enter
<1>6. Types'
  BY <1>3, <1>4, <1>5 DEF AgentInv, Types
<1>7. /\ \A b \in Agent : agent'[b] = IF b = a THEN r ELSE agent[b]
      /\ \A t \in Task : active'[t] = IF t = task THEN ws ELSE active[t]
      /\ \A b \in Agent : agent[b].task \in Task
  BY <1>4, <1>5 DEF AgentInv, Types, AgentRec
<1>8. Alone'
  BY <1>3, <1>7 DEF Alone
<1>9. AtHome'
  BY <1>3, <1>7 DEF AgentInv, AtHome
<1>10. RedOnlyAtHome'
  BY <1>3, <1>7, IdleFacts DEF AgentInv, RedOnlyAtHome
<1>11. Fresh' /\ Checked'
  BY DEF Fresh, Checked
<1> QED  BY <1>6, <1>8, <1>9, <1>10, <1>11 DEF AgentInv

(* A new orchestrator has no agents.                                       *)
LEMMA ResetKeeps ==
    ASSUME AgentInv, agent' = [a \in Agent |-> Idle], UNCHANGED <<mode, active>>,
           orch' \in OrchRec, run' \in RunRec
    PROVE  AgentInv'
<1>1. agent' \in [Agent -> AgentRec] /\ \A a \in Agent : agent'[a] = Idle
  BY IdleFacts
<1>2. Types'
  BY <1>1 DEF AgentInv, Types
<1>3. Alone' /\ AtHome' /\ Fresh' /\ Checked'
  BY <1>1, IdleFacts DEF Alone, AtHome, Fresh, Checked, Busy, RunRec
<1>4. RedOnlyAtHome'
  BY <1>1, IdleFacts DEF RedOnlyAtHome
<1> QED  BY <1>2, <1>3, <1>4 DEF AgentInv

(* The control moves on while the agents rest or stay where they are.      *)
LEMMA RestKeeps ==
    ASSUME AgentInv, UNCHANGED <<mode, agent, active>>, orch' \in OrchRec, run' \in RunRec,
           \A a \in Agent : agent[a].pc \in Busy => Placed(a)',
           run'.pc \in {"idle", "started"} => run.pc \in {"idle", "started"},
           run'.pc = "check" => run.next = run'.next /\ agent[run.next].pc \notin Busy
    PROVE  AgentInv'
BY DEF AgentInv, Types, Alone, AtHome, Fresh, Checked, RedOnlyAtHome

-----------------------------------------------------------------------------
(* Steps of the orchestrator.                                              *)

LEMMA AfterOrchCallType ==
    ASSUME NEW o \in OrchRec
    PROVE  AfterOrchCall(o) \in OrchRec /\ AfterOrchCall(o).pc \in {"ask", "call", "final"}
<1>1. CASE o.left > 1
  <2> DEFINE p == [o EXCEPT !.left = o.left - 1]
             q == [p EXCEPT !.pc = "call"]
  <2>1. p \in OrchFields
    BY <1>1 DEF OrchRec, OrchFields
  <2>2. q \in OrchFields /\ q.pc = "call"
    <3> HIDE DEF p
    <3> QED  BY <2>1 DEF OrchRec, OrchFields
  <2>3. AfterOrchCall(o) = [q EXCEPT !.at = NoOne]
    BY <1>1 DEF AfterOrchCall
  <2> HIDE DEF q
  <2> QED  BY <2>2, <2>3 DEF OrchRec, OrchFields
<1>2. CASE ~(o.left > 1)
  <2> DEFINE pc == IF o.iter + 1 < OrchLimit THEN "ask" ELSE "final"
             p == [o EXCEPT !.left = 0]
             q == [p EXCEPT !.at = NoOne]
             r == [q EXCEPT !.iter = o.iter + 1]
  <2>1. p \in OrchFields
    BY DEF OrchRec, OrchFields
  <2>2. q \in OrchFields
    <3> HIDE DEF p
    <3> QED  BY <2>1 DEF OrchRec, OrchFields
  <2>3. r \in OrchFields
    <3> HIDE DEF q
    <3> QED  BY <2>2 DEF OrchRec, OrchFields
  <2>4. AfterOrchCall(o) = [r EXCEPT !.pc = pc]
    BY <1>2, Zenon DEF AfterOrchCall
  <2>5. pc \in {"ask", "final"}
    OBVIOUS
  <2> HIDE DEF r, pc
  <2> QED  BY <2>3, <2>4, <2>5 DEF OrchRec, OrchFields
<1> QED  BY <1>1, <1>2

LEMMA OrchestrateFacts ==
    ASSUME Orchestrate
    PROVE  orch' \in OrchRec /\ agent' = [a \in Agent |-> Idle]
<1>1. OrchIdle \in OrchRec
  BY DEF OrchIdle, OrchRec, OrchFields, NoOne
<1> QED  BY <1>1 DEF Orchestrate, OrchRec, OrchFields

LEMMA OrchStepKeeps ==
    ASSUME AgentInv, run.pc = "work", run.kind \notin Structured, OrchStep, run' = run
    PROVE  AgentInv'
<1>0. orch \in OrchRec /\ run \in RunRec
      /\ \A a \in Agent : agent[a].pc \in Busy => orch.pc = "agent" /\ orch.at = a
  BY DEF AgentInv, Types, Alone, Placed
<1>1. ASSUME orch.pc # "agent" \/ orch.at \notin Agent \/ agent[orch.at].pc \notin Busy,
             UNCHANGED <<mode, agent, active>>, orch' \in OrchRec
      PROVE  AgentInv'
  BY <1>0, <1>1, RestKeeps
<1>2. CASE OrchAnswers \/ OrchRaises \/ OrchIsCut
  <2>1. PICK pc \in OrchEnded : orch' = [orch EXCEPT !.pc = pc]
    BY <1>2 DEF OrchAnswers, OrchRaises, OrchIsCut, OrchEnded
  <2>2. orch' \in OrchRec
    BY <1>0, <2>1 DEF OrchRec, OrchFields, OrchEnded
  <2> QED  BY <1>1, <1>2, <2>2 DEF OrchAnswers, OrchRaises, OrchIsCut, agentVars
<1>3. ASSUME NEW n \in 1..MaxCalls, OrchCalls(n) PROVE AgentInv'
  <2> DEFINE p == [orch EXCEPT !.pc = "call"]
  <2>1. p \in OrchFields /\ p.pc = "call" /\ n \in Nat
    BY <1>0 DEF OrchRec, OrchFields
  <2>2. orch' = [p EXCEPT !.left = n]
    BY <1>3 DEF OrchCalls
  <2> HIDE DEF p
  <2>3. orch' \in OrchRec
    BY <2>1, <2>2 DEF OrchRec, OrchFields
  <2> QED  BY <1>1, <1>3, <2>3 DEF OrchCalls, agentVars
<1>4. CASE OtherCall
  BY <1>0, <1>1, <1>4, AfterOrchCallType DEF OtherCall, agentVars
<1>5. CASE SpawnReturns
  <2>1. agent[orch.at].pc \notin Busy
    BY <1>5 DEF SpawnReturns, Returned, Busy
  <2> QED  BY <1>0, <1>1, <1>5, <2>1, AfterOrchCallType DEF SpawnReturns
<1>6. ASSUME NEW ws \in Workspaces, Spawn(ws) PROVE AgentInv'
  <2>0. PICK a \in Agent : a = orch.seq + 1
    BY <1>6 DEF Spawn
  <2> DEFINE p == [orch EXCEPT !.pc = "agent"]
             q == [p EXCEPT !.seq = a]
  <2>1. StartAgent(a, Main, ws) /\ mode' = mode /\ orch.pc = "call"
    BY <1>6, <2>0 DEF Spawn
  <2>2. orch' = [q EXCEPT !.at = a]
    BY <1>6, <2>0 DEF Spawn
  <2>3. p \in OrchFields /\ p.pc = "agent"
    BY <1>0 DEF OrchRec, OrchFields
  <2>4. q \in OrchFields /\ q.pc = "agent"
    <3> HIDE DEF p
    <3> QED  BY <2>1, <2>3 DEF OrchRec, OrchFields
  <2>5. orch' \in OrchRec /\ orch'.pc = "agent" /\ orch'.at = a
    <3> HIDE DEF q
    <3> QED  BY <2>1, <2>2, <2>4 DEF OrchRec, OrchFields
  <2>6. agent'[a].task = Main => Placed(a)'
    BY <2>5 DEF Placed, Structured
  <2>7. Main \in Task
    BY DEF Task
  <2> QED  BY <1>0, <2>1, <2>5, <2>6, <2>7, StartKeeps
<1>7. CASE AgentOfOrch
  <2>1. orch.at \in Agent
    BY <1>0, <1>7 DEF OrchRec, AgentOfOrch
  <2>2. PICK r : Moves(orch.at, r)
    BY <1>7, <2>1, StepMoves DEF AgentOfOrch, AgentInv
  <2> QED  BY <1>7, <2>1, <2>2, MoveKeeps DEF AgentOfOrch, orchVars
<1> QED  BY <1>2, <1>3, <1>4, <1>5, <1>6, <1>7 DEF OrchStep

-----------------------------------------------------------------------------
(* Steps of the run.                                                       *)

(* A step that leaves the agents and the orchestrator alone, and the next  *)
(* member too.                                                             *)
LEMMA ControlKeeps ==
    ASSUME AgentInv, UNCHANGED <<mode, agent, active, orch>>, run' \in RunRec,
           run'.kind = run.kind, run'.next = run.next,
           run'.pc \in {"idle", "started"} => run.pc \in {"idle", "started"},
           run'.pc = "check" => agent[run.next].pc \notin Busy
    PROVE  AgentInv'
BY RestKeeps DEF AgentInv, Alone, Placed, Types

LEMMA GoToType ==
    ASSUME NEW pc \in Steps, GoTo(pc), run \in RunRec
    PROVE  /\ run' \in RunRec /\ run'.pc = pc /\ run'.kind = run.kind
           /\ run'.next = run.next /\ run'.error = run.error
           /\ run'.verdict = run.verdict
BY DEF GoTo, RunRec

LEMMA AgentInvInit == Init => AgentInv
<1> SUFFICES ASSUME Init PROVE AgentInv
  OBVIOUS
<1>1. run \in RunRec /\ run.pc = "idle"
  BY DEF Init, NoRun, RunRec, Steps
<1>2. orch \in OrchRec
  BY DEF Init, OrchInit, OrchIdle, OrchRec, OrchFields, NoOne
<1>3. /\ agent \in [Agent -> AgentRec]
      /\ \A a \in Agent : agent[a].pc = "none" /\ agent[a].last = NoTool
      /\ active \in [Task -> Workspaces \cup {NoWorkspace}]
  BY IdleFacts DEF Init, AgentInit
<1>4. Types /\ Alone /\ AtHome /\ Fresh /\ Checked
  BY <1>1, <1>2, <1>3 DEF Types, Alone, AtHome, Fresh, Checked, Busy
<1>5. RedOnlyAtHome
  BY <1>3, IdleFacts DEF RedOnlyAtHome
<1> QED  BY <1>4, <1>5 DEF AgentInv

LEMMA WorkKeeps ==
    ASSUME AgentInv, Work
    PROVE  AgentInv'
<1>0. run \in RunRec /\ orch \in OrchRec
  BY DEF AgentInv, Types
<1>1. CASE PreflightFails \/ GiveUp \/ RepeatFound \/ Finish \/ Tell
  <2>1. PICK pc \in {"finish", "tell", "ended"} : GoTo(pc)
    BY <1>1 DEF PreflightFails, GiveUp, RepeatFound, Finish, Tell
  <2>2. /\ run' \in RunRec /\ run'.pc \in {"finish", "tell", "ended"}
        /\ run'.kind = run.kind /\ run'.next = run.next
    BY <1>0, <2>1, GoToType DEF Steps
  <2>3. UNCHANGED <<mode, agent, active, orch>>
    BY <1>1 DEF PreflightFails, GiveUp, RepeatFound, Finish, Tell, orchVars, agentVars
  <2> QED  BY <2>2, <2>3, ControlKeeps
<1>2. CASE BeginWork
  <2>1. /\ run' \in RunRec /\ run'.pc = "work"
        /\ run'.kind = run.kind /\ run'.next = run.next
    BY <1>0, <1>2, GoToType DEF BeginWork, Steps
  <2>2. CASE run.kind \in Orchestrated
    BY <1>2, <2>1, <2>2, OrchestrateFacts, ResetKeeps DEF BeginWork
  <2>3. CASE run.kind \notin Orchestrated
    BY <1>2, <2>1, <2>3, ControlKeeps DEF BeginWork
  <2> QED  BY <2>2, <2>3
<1>3. CASE OrchestratorWorks
  BY <1>3, OrchStepKeeps DEF OrchestratorWorks
<1>4. CASE OrchestratorEnds
  <2>1. /\ run' \in RunRec /\ run'.pc \in {"tell", "finish", "judge"}
        /\ run'.kind = run.kind /\ run'.next = run.next
    BY <1>0, <1>4 DEF OrchestratorEnds, RunRec, Steps
  <2> QED  BY <1>4, <2>1, ControlKeeps DEF OrchestratorEnds, orchVars, agentVars
<1>5. ASSUME NEW a \in Agent, NEW ws \in Workspaces, StartMember(a, ws) PROVE AgentInv'
  <2>1. PICK task \in Task : /\ task = IF run.kind = "chain" THEN Main ELSE a
                             /\ StartAgent(a, task, ws)
    BY <1>5 DEF StartMember, Task
  <2>2. /\ UNCHANGED <<mode, orch, run>> /\ run.pc = "work"
        /\ run.kind \in Structured /\ (run.kind = "chain" => a = run.next)
    BY <1>5 DEF StartMember, teamVars, orchVars
  <2>3. \A b \in Agent : b # a => agent'[b] = agent[b]
    BY <2>1 DEF StartAgent, AgentInv, Types
  <2>4. \A b \in Agent : b # a /\ agent[b].pc \in Busy => agent[b].task # task /\ Placed(b)'
    BY <2>1, <2>2, <2>3 DEF AgentInv, Alone, Placed, Structured
  <2>5. agent'[a].task = task => Placed(a)'
    BY <2>1, <2>2 DEF Placed, Structured
  <2> QED  BY <1>0, <2>1, <2>2, <2>4, <2>5, StartKeeps
<1>6. ASSUME NEW a \in Agent, MemberWorks(a) PROVE AgentInv'
  <2>1. PICK r : Moves(a, r)
    BY <1>6, StepMoves DEF MemberWorks, AgentInv
  <2> QED  BY <1>6, <2>1, MoveKeeps DEF MemberWorks, orchVars
<1>7. ASSUME NEW a \in Agent, ChainBreaks(a) PROVE AgentInv'
  <2>1. /\ run' \in RunRec /\ run'.pc = "finish"
        /\ run'.kind = run.kind /\ run'.next = run.next
    BY <1>0, <1>7 DEF ChainBreaks, RunRec, Steps
  <2> QED  BY <1>7, <2>1, ControlKeeps DEF ChainBreaks, orchVars, agentVars
<1>8. ASSUME NEW a \in Agent, CheckMember(a) PROVE AgentInv'
  <2>1. /\ run' \in RunRec /\ run'.pc = "check"
        /\ run'.kind = run.kind /\ run'.next = run.next
    BY <1>0, <1>8, GoToType DEF CheckMember, Steps
  <2>2. agent[run.next].pc \notin Busy
    BY <1>8 DEF CheckMember, ChainAt, Returned, Busy
  <2> QED  BY <1>8, <2>1, <2>2, ControlKeeps DEF CheckMember, orchVars, agentVars
<1>9. ASSUME NEW a \in Agent, ChainGoesOn(a) PROVE AgentInv'
  <2>1. UNCHANGED <<mode, agent, active, orch>>
    BY <1>9 DEF ChainGoesOn, agentVars
  <2>2. CASE a + 1 \in Agent
    <3>1. run' = [run EXCEPT !.pc = "work", !.next = a + 1]
      BY <1>9, <2>2 DEF ChainGoesOn
    <3>2. run' \in RunRec /\ run'.pc = "work" /\ run'.kind = run.kind
      BY <1>0, <2>2, <3>1 DEF RunRec, Steps
    <3>3. agent[run.next].pc \notin Busy
      BY <1>9 DEF ChainGoesOn, ChainAt, AgentInv, Checked, Returned, Busy
    <3>4. \A b \in Agent : agent[b].pc \in Busy => Placed(b)'
      BY <2>1, <3>2, <3>3 DEF AgentInv, Alone, Placed
    <3> QED  BY <1>0, <2>1, <3>2, <3>4, RestKeeps
  <2>3. CASE a + 1 \notin Agent
    <3>1. /\ run' \in RunRec /\ run'.pc = "judge"
          /\ run'.kind = run.kind /\ run'.next = run.next
      BY <1>0, <1>9, <2>3, GoToType DEF ChainGoesOn, Steps
    <3> QED  BY <2>1, <3>1, ControlKeeps
  <2> QED  BY <2>2, <2>3
<1>10. CASE AllReturn
  <2>1. /\ run' \in RunRec /\ run'.pc = "judge"
        /\ run'.kind = run.kind /\ run'.next = run.next
    BY <1>0, <1>10, GoToType DEF AllReturn, Steps
  <2> QED  BY <1>10, <2>1, ControlKeeps DEF AllReturn, agentVars
<1>11. CASE Judge \/ \E ok \in BOOLEAN : VerifyTeam(ok)
  <2>1. \/ \E pc \in {"verify", "finish"} :
              run' = [run EXCEPT !.verdict = "completed", !.pc = pc]
        \/ run' = [run EXCEPT !.verdict = "failed", !.pc = "again"]
        \/ \E pc \in {"again", "finish"} : run' = [run EXCEPT !.pc = pc]
    BY <1>11 DEF Judge, VerifyTeam, GoTo
  <2> DEFINE Settled ==
        /\ run' \in RunRec /\ run'.pc \in {"verify", "finish", "again"}
        /\ run'.kind = run.kind /\ run'.next = run.next
  <2>2. Settled
    <3>1. ASSUME NEW v \in {"completed", "failed"}, NEW pc \in {"verify", "finish", "again"},
                 run' = [run EXCEPT !.verdict = v, !.pc = pc]
          PROVE  Settled
      <4> DEFINE p == [run EXCEPT !.verdict = v]
      <4>1. p \in RunRec /\ p.kind = run.kind /\ p.next = run.next
        BY <1>0 DEF RunRec
      <4>2. run' = [p EXCEPT !.pc = pc]
        BY <3>1
      <4> HIDE DEF p
      <4> QED  BY <4>1, <4>2 DEF RunRec, Steps
    <3>2. ASSUME NEW pc \in {"again", "finish"}, run' = [run EXCEPT !.pc = pc]
          PROVE  Settled
      BY <1>0, <3>2 DEF RunRec, Steps
    <3> QED  BY <2>1, <3>1, <3>2
  <2> QED  BY <1>11, <2>2, ControlKeeps DEF Judge, VerifyTeam, agentVars
<1>12. CASE Retry
  <2>1. run' \in RunRec /\ run'.pc = "work"
    <3> DEFINE p == [run EXCEPT !.attempt = run.attempt + 1]
    <3>1. p \in RunRec
      BY <1>0 DEF RunRec
    <3>2. run' = [p EXCEPT !.pc = "work"]
      BY <1>12 DEF Retry
    <3> HIDE DEF p
    <3> QED  BY <3>1, <3>2 DEF RunRec, Steps
  <2> QED  BY <1>12, <2>1, OrchestrateFacts, ResetKeeps DEF Retry
<1> QED  BY <1>1, <1>2, <1>3, <1>4, <1>5, <1>6, <1>7, <1>8, <1>9, <1>10, <1>11, <1>12 DEF Work

LEMMA AgentInvNext == AgentInv /\ [Next]_vars => AgentInv'
<1> SUFFICES ASSUME AgentInv, [Next]_vars PROVE AgentInv'
  OBVIOUS
<1>0. run \in RunRec
  BY DEF AgentInv, Types
<1>1. CASE StartDynamic
  <2>1. run' \in RunRec /\ run'.pc = "work"
    BY <1>0, <1>1 DEF StartDynamic, RunRec, Steps
  <2> QED  BY <1>1, <2>1, OrchestrateFacts, ResetKeeps DEF StartDynamic
<1>2. CASE NoTeam
  <2>1. /\ run' \in RunRec /\ run'.pc = "ended"
        /\ run'.kind = run.kind /\ run'.next = run.next
    BY <1>0, <1>2, GoToType DEF NoTeam, Steps
  <2> QED  BY <1>2, <2>1, ControlKeeps DEF NoTeam, orchVars, agentVars
<1>3. ASSUME NEW team \in Teams, StartTeam(team) PROVE AgentInv'
  <2>1. run' \in RunRec /\ run'.pc = "started"
    BY <1>0, <1>3 DEF StartTeam, RunRec, Steps, Able
  <2>2. \A a \in Agent : agent[a].pc = "none"
    BY <1>3 DEF StartTeam, AgentInv, Fresh
  <2> QED  BY <1>3, <2>1, <2>2, RestKeeps
           DEF StartTeam, orchVars, agentVars, Busy, AgentInv, Types
<1>4. CASE Cancel
  <2>1. /\ run' \in RunRec /\ run'.pc = "cancelled"
        /\ run'.kind = run.kind /\ run'.next = run.next
    BY <1>0, <1>4, GoToType DEF Cancel, Steps
  <2> QED  BY <1>4, <2>1, ControlKeeps DEF Cancel, orchVars
<1>5. CASE UNCHANGED vars
  <2>1. UNCHANGED <<mode, agent, active, orch, run>>
    BY <1>5 DEF vars, agentVars, orchVars, teamVars
  <2> QED  BY <1>0, <2>1, ControlKeeps DEF AgentInv, Checked
<1> QED  BY <1>1, <1>2, <1>3, <1>4, <1>5, WorkKeeps DEF Next, Rest

(* The state of the agents, and with it: in auto_approve_workspace mode a  *)
(* RED tool is called only in the workspace of its agent, by an agent that *)
(* may; for any number of agents that follow each other in one task or     *)
(* work side by side.                                                      *)
THEOREM AgentsHold == Spec => []AgentInv
BY AgentInvInit, AgentInvNext, PTL DEF Spec

THEOREM RedAtHome == Spec => []RedOnlyAtHome
BY AgentsHold, PTL DEF AgentInv

-----------------------------------------------------------------------------
(* The control of the run.                                                 *)

DoneAt(b) == agent[b].pc \in Whole /\ <<"chain", b>> \in checkpoints

(* The work has ended without an exception.                                *)
Passed ==
    \/ run.pc \in {"judge", "verify", "again"}
    \/ run.pc = "finish" /\ ~run.error

Phases ==
    /\ run.kind = "none" => run.pc \in {"idle", "ended"} /\ run.next = 1
    /\ run.pc = "idle" => run.kind = "none" /\ row = "none"
    /\ run.pc \in {"started", "judge", "verify", "again", "finish"} =>
           run.kind \in TeamTypes
    /\ run.pc = "check" => run.kind = "chain"
    /\ run.error => run.pc \in {"finish", "tell", "ended", "cancelled"}
    /\ run.verdict = "completed" =>
           run.pc \in {"verify", "finish", "tell", "ended", "cancelled"}

Chained ==
    run.kind = "chain" =>
        /\ \A a \in Agent : agent[a].pc # "none" => a <= run.next
        /\ \A b \in Agent : b < run.next => DoneAt(b)
        /\ run.pc = "check" => agent[run.next].pc \in Whole
        /\ Passed => \A a \in Agent : DoneAt(a)

(* What is known of the reply on its way from the orchestrator to the row. *)
Judged ==
    /\ run.pc = "work" /\ run.kind \notin Structured /\ orch.pc = "replied" =>
           reply \in ReplyKind
    /\ Passed /\ run.kind \in Orchestrated => orch.pc = "replied"
    /\ run.pc = "judge" => reply \in ReplyKind
    /\ Passed /\ run.pc # "judge" => reply.status # "empty"
    /\ Passed /\ run.verdict = "completed" => reply \in ReplyKind /\ Accepts(reply)

Rows ==
    /\ run.kind = "dynamic" /\ run.pc = "work" => row = "running"
    /\ run.pc = "tell" =>
           /\ row = "running" <=> run.kind = "dynamic" /\ run.error
           /\ run.error => row # "completed"
           /\ ~run.error /\ reply = Empty => run.kind = "dynamic" /\ row = "completed"

ControlInv == Phases /\ Chained /\ Judged /\ Rows /\ EndingsAgree

LEMMA ControlInit == Init => ControlInv
<1> SUFFICES ASSUME Init PROVE ControlInv
  OBVIOUS
<1>1. /\ run.kind = "none" /\ run.pc = "idle" /\ run.next = 1 /\ run.error = FALSE
      /\ run.verdict = "failed" /\ row = "none"
  BY DEF Init, NoRun
<1> QED  BY <1>1 DEF ControlInv, Phases, Chained, Judged, Rows, EndingsAgree, Passed

(* The fields of run that the control reads, after a step.                 *)
Set(kind, pc, next, error, verdict) ==
    /\ run'.kind = kind /\ run'.pc = pc /\ run'.next = next
    /\ run'.error = error /\ run'.verdict = verdict
Moved(pc) == Set(run.kind, pc, run.next, run.error, run.verdict)

LEMMA GoToMoves ==
    ASSUME NEW pc \in Steps, GoTo(pc), run \in RunRec
    PROVE  Moved(pc)
BY GoToType DEF Moved, Set

(* The chain, while no agent moves and no member is next.                  *)
LEMMA ChainRests ==
    ASSUME AgentInv, Chained, agent' = agent, checkpoints \subseteq checkpoints',
           run'.kind = run.kind, run'.next = run.next,
           run'.pc = "check" => agent[run.next].pc \in Whole,
           Passed' /\ run.kind = "chain" => Passed
    PROVE  Chained'
BY DEF Chained, DoneAt

(* A team that is no chain, or no team.                                    *)
LEMMA NoChain == run'.kind # "chain" => Chained'
BY DEF Chained

LEMMA OrchReplies ==
    ASSUME OrchStep, orch \in OrchRec, orch'.pc = "replied",
           orch.pc = "replied" => reply \in ReplyKind
    PROVE  reply' \in ReplyKind
<1>1. CASE OrchAnswers \/ OrchIsCut
  BY <1>1 DEF OrchAnswers, OrchIsCut
<1>2. CASE OrchRaises
  BY <1>2 DEF OrchRaises, OrchRec, OrchFields
<1>3. ASSUME NEW n \in 1..MaxCalls, OrchCalls(n) PROVE FALSE
  <2> DEFINE p == [orch EXCEPT !.pc = "call"]
  <2>1. p \in OrchFields /\ p.pc = "call"
    BY DEF OrchRec, OrchFields
  <2>2. orch' = [p EXCEPT !.left = n]
    BY <1>3 DEF OrchCalls
  <2> HIDE DEF p
  <2> QED  BY <2>1, <2>2 DEF OrchFields
<1>4. ASSUME NEW ws \in Workspaces, Spawn(ws) PROVE FALSE
  <2>0. PICK a \in Agent : orch' = [orch EXCEPT !.pc = "agent", !.seq = a, !.at = a]
    BY <1>4 DEF Spawn
  <2> DEFINE p == [orch EXCEPT !.pc = "agent"]
             q == [p EXCEPT !.seq = a]
  <2>1. p \in OrchFields /\ p.pc = "agent"
    BY DEF OrchRec, OrchFields
  <2>2. q \in OrchFields /\ q.pc = "agent"
    <3> HIDE DEF p
    <3> QED  BY <2>1 DEF OrchFields
  <2>3. orch' = [q EXCEPT !.at = a]
    BY <2>0
  <2> HIDE DEF q
  <2> QED  BY <2>2, <2>3 DEF OrchFields
<1>5. CASE SpawnReturns \/ OtherCall
  BY <1>5, AfterOrchCallType DEF SpawnReturns, OtherCall
<1>6. CASE AgentOfOrch
  BY <1>6 DEF AgentOfOrch, orchVars
<1> QED  BY <1>1, <1>2, <1>3, <1>4, <1>5, <1>6 DEF OrchStep

LEMMA OrchestrateAsks ==
    ASSUME Orchestrate PROVE orch'.pc = "ask"
BY DEF Orchestrate, OrchIdle

LEMMA RejectionIsReply == ASSUME NEW r, r.status # "empty" PROVE Rejection(r).status # "empty"
BY DEF Rejection, BlockedReply, ContractError

LEMMA EmptyStatus == Empty.status = "empty"
OBVIOUS

(* Starts of a run and of its work.                                        *)
LEMMA StartsControl ==
    ASSUME AgentInv, ControlInv,
           \/ StartDynamic \/ NoTeam \/ BeginWork \/ Retry
           \/ \E team \in Teams : StartTeam(team)
    PROVE  ControlInv'
<1>0. run \in RunRec /\ Phases /\ Chained
  BY DEF AgentInv, Types, ControlInv
<1>1. CASE StartDynamic
  <2>1. /\ Set("dynamic", "work", run.next, run.error, run.verdict)
        /\ run.kind = "none" /\ ~run.error /\ run.verdict # "completed" /\ run.pc = "idle"
    BY <1>0, <1>1 DEF StartDynamic, RunRec, Set, Phases
  <2>2. row' = "running" /\ orch'.pc = "ask"
    BY <1>1, OrchestrateAsks DEF StartDynamic, RowBegins
  <2> QED  BY <2>1, <2>2 DEF Set, ControlInv, Phases, Chained, Judged, Rows,
                            EndingsAgree, Passed, Orchestrated
<1>2. CASE NoTeam
  <2>1. Moved("ended") /\ run.pc = "idle" /\ told' = "error" /\ row' = row
    BY <1>0, <1>2, GoToMoves DEF NoTeam, Steps
  <2>2. run.kind = "none" /\ ~run.error /\ row = "none" /\ run.verdict # "completed"
    BY <1>0, <2>1 DEF Phases, RunRec
  <2> QED  BY <1>0, <2>1, <2>2 DEF Moved, Set, ControlInv, Phases, Chained, Judged,
                                  Rows, EndingsAgree, Passed
<1>3. CASE BeginWork
  <2>1. Moved("work") /\ run.pc = "started" /\ row' = row /\ checkpoints' = checkpoints
    BY <1>0, <1>3, GoToMoves DEF BeginWork, Steps
  <2>2. run.kind \in TeamTypes /\ ~run.error /\ run.verdict # "completed"
    BY <1>0, <2>1 DEF Phases, RunRec
  <2>3. IF run.kind \in Orchestrated THEN orch'.pc = "ask"
        ELSE UNCHANGED <<orch, agent, reply>>
    BY <1>3, OrchestrateAsks DEF BeginWork
  <2>4. Phases' /\ Rows' /\ EndingsAgree'
    BY <1>0, <2>1, <2>2 DEF Moved, Set, Phases, Rows, EndingsAgree, TeamTypes,
                           Structured, Orchestrated
  <2>5. Chained'
    <3>1. CASE run.kind = "chain"
      BY <1>0, <2>1, <2>3, <3>1, ChainRests DEF Moved, Set, Passed, Orchestrated
    <3> QED  BY <2>1, <3>1, NoChain DEF Moved, Set
  <2>6. Judged'
    BY <2>1, <2>3, <2>2 DEF Moved, Set, Judged, Passed, Orchestrated, TeamTypes, Structured
  <2> QED  BY <2>4, <2>5, <2>6 DEF ControlInv
<1>4. CASE Retry
  <2>1. Moved("work") /\ run.pc = "again" /\ run.kind \in Orchestrated
    <3> DEFINE p == [run EXCEPT !.attempt = run.attempt + 1]
    <3>1. p \in RunRec /\ p.kind = run.kind /\ p.next = run.next
          /\ p.error = run.error /\ p.verdict = run.verdict
      BY <1>0 DEF RunRec
    <3>2. run' = [p EXCEPT !.pc = "work"] /\ MayRetry
      BY <1>4 DEF Retry
    <3> HIDE DEF p
    <3> QED  BY <3>1, <3>2 DEF RunRec, Moved, Set, MayRetry
  <2>2. ~run.error /\ run.verdict # "completed" /\ orch'.pc = "ask"
    BY <1>0, <1>4, <2>1, OrchestrateAsks DEF Phases, RunRec, Retry
  <2> QED  BY <1>0, <2>1, <2>2 DEF Moved, Set, ControlInv, Phases, Chained, Judged, Rows,
                            EndingsAgree, Passed, Orchestrated
<1>5. ASSUME NEW team \in Teams, StartTeam(team) PROVE ControlInv'
  <2>1. /\ Set(team.kind, "started", run.next, run.error, run.verdict)
        /\ run.pc = "idle" /\ run.kind = "none" /\ run.next = 1
        /\ ~run.error /\ run.verdict # "completed"
    <3> DEFINE p == [run EXCEPT !.kind = team.kind]
               q == [p EXCEPT !.pc = "started"]
    <3>1. p \in RunRec /\ p.kind = team.kind /\ p.next = run.next
          /\ p.error = run.error /\ p.verdict = run.verdict
      BY <1>0 DEF RunRec
    <3>2. q \in RunRec /\ q.kind = team.kind /\ q.next = run.next /\ q.pc = "started"
          /\ q.error = run.error /\ q.verdict = run.verdict
      <4> HIDE DEF p
      <4> QED  BY <3>1 DEF RunRec, Steps
    <3>3. run' = [q EXCEPT !.able = Able(team, Allowed)] /\ run.pc = "idle"
      BY <1>5 DEF StartTeam
    <3>4. run.kind = "none" /\ run.next = 1 /\ ~run.error /\ run.verdict # "completed"
      BY <1>0, <3>3 DEF Phases, RunRec
    <3> HIDE DEF q
    <3> QED  BY <3>2, <3>3, <3>4 DEF RunRec, Set
  <2>2. \A a \in Agent : agent'[a].pc = "none"
    BY <1>5 DEF StartTeam, AgentInv, Fresh, agentVars
  <2>3. Chained'
    BY <2>1, <2>2 DEF Set, Chained, Passed
  <2>4. team.kind \in TeamTypes
    OBVIOUS
  <2> HIDE DEF Set
  <2>5. Phases' /\ Judged' /\ Rows' /\ EndingsAgree'
    BY <2>1, <2>4 DEF Set, Phases, Judged, Rows, EndingsAgree, Passed, TeamTypes,
                     Structured, Orchestrated
  <2> QED  BY <2>3, <2>5 DEF ControlInv
<1> QED  BY <1>1, <1>2, <1>3, <1>4, <1>5

(* The work: of the orchestrator, of the members, and its end.             *)
LEMMA WorkControl ==
    ASSUME AgentInv, ControlInv,
           \/ OrchestratorWorks \/ OrchestratorEnds \/ AllReturn
           \/ \E a \in Agent :
                 \/ \E ws \in Workspaces : StartMember(a, ws)
                 \/ MemberWorks(a) \/ ChainBreaks(a) \/ CheckMember(a)
                 \/ ChainGoesOn(a)
    PROVE  ControlInv'
<1>0. /\ run \in RunRec /\ orch \in OrchRec /\ agent \in [Agent -> AgentRec]
      /\ Phases /\ Chained /\ Judged /\ Rows
  BY DEF AgentInv, Types, ControlInv
<1>w. ASSUME run.pc = "work"
      PROVE  ~run.error /\ run.verdict # "completed"
  BY <1>0, <1>w DEF Phases, RunRec
<1>1. CASE OrchestratorWorks
  <2>1. /\ run' = run /\ row' = row /\ run.pc = "work" /\ run.kind \notin Structured
    BY <1>1 DEF OrchestratorWorks
  <2>2. Phases' /\ Rows' /\ EndingsAgree'
    BY <1>0, <2>1 DEF Phases, Rows, EndingsAgree
  <2>3. Chained'
    BY <2>1, NoChain DEF Structured
  <2>4. Judged'
    BY <1>0, <1>1, <2>1, OrchReplies DEF OrchestratorWorks, Judged, Passed
  <2> QED  BY <2>2, <2>3, <2>4 DEF ControlInv
<1>2. CASE OrchestratorEnds
  <2>0. run.pc = "work" /\ run.kind \notin Structured /\ orch.pc \in OrchEnded
    BY <1>2 DEF OrchestratorEnds
  <2>1. \E pc \in {"tell", "finish", "judge"} :
           /\ Set(run.kind, pc, run.next, orch.pc = "raised", run.verdict)
           /\ pc = IF run.kind = "dynamic" THEN "tell"
                   ELSE IF orch.pc = "raised" THEN "finish" ELSE "judge"
    BY <1>0, <1>2 DEF OrchestratorEnds, RunRec, Set, Steps
  <2>2. /\ reply' = reply /\ orch' = orch
        /\ row' = IF run.kind = "dynamic" /\ orch.pc = "replied" THEN "completed" ELSE row
    BY <1>2 DEF OrchestratorEnds, RowEnds, orchVars
  <2>3. run.kind # "none" /\ run.kind # "dynamic" => run.kind \in TeamTypes
    BY <1>0, <2>0 DEF Phases, RunRec
  <2>4. run.kind # "none"
    BY <1>0, <2>0 DEF Phases
  <2>5. Phases'
    BY <1>0, <1>w, <2>0, <2>1, <2>3, <2>4 DEF Set, Phases
  <2>6. Chained'
    BY <2>0, <2>1, NoChain DEF Set, Structured
  <2>7. Judged'
    BY <1>0, <1>w, <2>0, <2>1, <2>2 DEF Set, Judged, Passed, OrchEnded
  <2>8. Rows'
    BY <1>0, <2>0, <2>1, <2>2 DEF Set, Rows, OrchEnded
  <2>9. EndingsAgree'
    BY <2>1 DEF Set, EndingsAgree
  <2> QED  BY <2>5, <2>6, <2>7, <2>8, <2>9 DEF ControlInv
<1>3. CASE AllReturn
  <2>1. Moved("judge") /\ run.pc = "work" /\ run.kind = "parallel"
        /\ reply' \in ReplyKind
    BY <1>0, <1>3, GoToMoves DEF AllReturn, Steps
  <2>2. Chained'
    BY <2>1, NoChain DEF Moved, Set
  <2>3. Phases' /\ Judged' /\ Rows' /\ EndingsAgree'
    BY <1>0, <1>w, <2>1 DEF Moved, Set, Phases, Judged, Rows, EndingsAgree, Passed,
                           TeamTypes, Structured, Orchestrated
  <2> QED  BY <2>2, <2>3 DEF ControlInv
<1>4. ASSUME NEW a \in Agent, NEW ws \in Workspaces, StartMember(a, ws)
      PROVE  ControlInv'
  <2>1. /\ UNCHANGED <<run, row, checkpoints, orch, reply>> /\ run.pc = "work"
        /\ run.kind \in Structured /\ agent[a].pc = "none"
        /\ (run.kind = "chain" => a = run.next)
    BY <1>4 DEF StartMember, teamVars, orchVars
  <2>2. \A b \in Agent : b # a => agent'[b] = agent[b]
    BY <1>0, <1>4 DEF StartMember, StartAgent
  <2>3. a \in Nat /\ run.next \in Nat
    BY <1>0 DEF RunRec
  <2>4. Chained'
    <3> SUFFICES ASSUME run.kind = "chain"
                 PROVE  /\ \A b \in Agent : agent'[b].pc # "none" => b <= run.next
                        /\ \A b \in Agent : b < run.next => DoneAt(b)'
      BY <2>1 DEF Chained, Passed
    <3> QED  BY <1>0, <2>1, <2>2, <2>3 DEF Chained, DoneAt
  <2>5. Phases' /\ Judged' /\ Rows' /\ EndingsAgree'
    BY <1>0, <2>1 DEF Phases, Judged, Rows, EndingsAgree, Passed
  <2> QED  BY <2>4, <2>5 DEF ControlInv
<1>5. ASSUME NEW a \in Agent, MemberWorks(a) PROVE ControlInv'
  <2>1. /\ UNCHANGED <<run, row, orch, reply>> /\ run.pc = "work"
        /\ run.kind \in Structured /\ checkpoints \subseteq checkpoints'
    BY <1>5 DEF MemberWorks, Checkpoint, orchVars
  <2>2. PICK r : Moves(a, r)
    BY <1>5, StepMoves DEF MemberWorks, AgentInv
  <2>3. /\ \A b \in Agent : b # a => agent'[b] = agent[b]
        /\ agent[a].pc # "none" /\ (run.kind = "chain" => a = run.next)
    BY <1>0, <2>2 DEF Moves, AgentInv, Alone, Placed, Busy
  <2>4. a \in Nat /\ run.next \in Nat
    BY <1>0 DEF RunRec
  <2>5. Chained'
    <3> SUFFICES ASSUME run.kind = "chain"
                 PROVE  /\ \A b \in Agent : agent'[b].pc # "none" => b <= run.next
                        /\ \A b \in Agent : b < run.next => DoneAt(b)'
      BY <2>1 DEF Chained, Passed
    <3> QED  BY <1>0, <2>1, <2>3, <2>4 DEF Chained, DoneAt
  <2>6. Phases' /\ Judged' /\ Rows' /\ EndingsAgree'
    BY <1>0, <2>1 DEF Phases, Judged, Rows, EndingsAgree, Passed
  <2> QED  BY <2>5, <2>6 DEF ControlInv
<1>6. ASSUME NEW a \in Agent, ChainBreaks(a) PROVE ControlInv'
  <2>1. /\ Set(run.kind, "finish", run.next, TRUE, run.verdict)
        /\ run.kind = "chain" /\ run.verdict # "completed"
        /\ UNCHANGED <<agent, checkpoints, orch, reply, row>>
    BY <1>0, <1>6 DEF ChainBreaks, ChainAt, RunRec, Set, Steps, Phases, orchVars, agentVars
  <2>2. Chained'
    BY <1>0, <2>1, ChainRests DEF Set, Passed
  <2>3. Phases' /\ Judged' /\ Rows' /\ EndingsAgree'
    BY <1>0, <2>1 DEF Set, Phases, Judged, Rows, EndingsAgree, Passed, TeamTypes, Structured
  <2> QED  BY <2>2, <2>3 DEF ControlInv
<1>7. ASSUME NEW a \in Agent, CheckMember(a) PROVE ControlInv'
  <2>1. /\ Moved("check") /\ run.kind = "chain" /\ run.pc = "work"
        /\ agent[run.next].pc \in Whole
        /\ UNCHANGED <<agent, checkpoints, orch, reply, row>>
    BY <1>0, <1>7, GoToMoves
    DEF CheckMember, ChainAt, Failed, Returned, Whole, Steps, orchVars, agentVars
  <2>2. Chained'
    BY <1>0, <2>1, ChainRests DEF Moved, Set, Passed
  <2>3. Phases' /\ Judged' /\ Rows' /\ EndingsAgree'
    BY <1>0, <1>w, <2>1 DEF Moved, Set, Phases, Judged, Rows, EndingsAgree, Passed,
                           TeamTypes, Structured
  <2> QED  BY <2>2, <2>3 DEF ControlInv
<1>8. ASSUME NEW a \in Agent, ChainGoesOn(a) PROVE ControlInv'
  <2>1. /\ run.kind = "chain" /\ a = run.next /\ agent[a].pc \in Whole
        /\ run.pc \in {"work", "check"} /\ UNCHANGED <<agent, orch, row>>
        /\ checkpoints' = checkpoints \cup {<<"chain", a>>}
    BY <1>0, <1>8 DEF ChainGoesOn, ChainAt, Failed, Returned, Whole, Phases, Chained, agentVars
  <2>2. ~run.error /\ run.verdict # "completed"
    BY <1>0, <2>1 DEF Phases, RunRec
  <2>3. a \in Nat /\ \A b \in Agent : b \in Nat /\ (b < a => DoneAt(b))
    BY <1>0, <2>1 DEF Chained
  <2>4. DoneAt(a)' /\ \A b \in Agent : DoneAt(b) => DoneAt(b)'
    BY <2>1 DEF DoneAt
  <2>5. CASE a + 1 \in Agent
    <3>1. /\ Set(run.kind, "work", a + 1, run.error, run.verdict) /\ reply' = reply
      <4>1. run' = [run EXCEPT !.pc = "work", !.next = a + 1] /\ reply' = reply
        BY <1>8, <2>5 DEF ChainGoesOn
      <4>2. run \in RunRec /\ run' \in RunRec
        BY <1>0, <2>5, <4>1 DEF RunRec, Steps
      <4> QED  BY <2>5, <4>1, <4>2 DEF RunRec, Set
    <3>2. Chained'
      <4> SUFFICES ASSUME NEW b \in Agent
                   PROVE  /\ agent[b].pc # "none" => b <= a + 1
                          /\ b < a + 1 => DoneAt(b)'
        BY <2>1, <3>1 DEF Set, Chained, Passed
      <4> QED  BY <1>0, <2>1, <2>3, <2>4 DEF Chained
    <3>3. Phases' /\ Judged' /\ Rows' /\ EndingsAgree'
      BY <1>0, <2>1, <2>2, <3>1 DEF Set, Phases, Judged, Rows, EndingsAgree, Passed, Structured
    <3> QED  BY <3>2, <3>3 DEF ControlInv
  <2>6. CASE a + 1 \notin Agent
    <3>1. Moved("judge") /\ reply' \in ReplyKind
      BY <1>0, <1>8, <2>6, GoToMoves DEF ChainGoesOn, Steps
    <3>2. \A b \in Agent : b <= a
      <4> SUFFICES ASSUME NEW b \in Agent PROVE b <= a
        OBVIOUS
      <4>1. b \in Nat /\ a \in Nat /\ 1..b \subseteq Agent
        BY <2>3
      <4>2. b > a => a + 1 \in 1..b
        BY <4>1
      <4> QED  BY <2>6, <4>1, <4>2
    <3>3. \A b \in Agent : DoneAt(b)'
      BY <2>3, <2>4, <3>2
    <3>4. Chained'
      BY <1>0, <2>1, <3>1, <3>2, <3>3 DEF Moved, Set, Chained
    <3>5. Phases' /\ Judged' /\ Rows' /\ EndingsAgree'
      BY <1>0, <2>1, <2>2, <3>1 DEF Moved, Set, Phases, Judged, Rows, EndingsAgree,
                                   Passed, TeamTypes, Structured, Orchestrated
    <3> QED  BY <3>4, <3>5 DEF ControlInv
  <2> QED  BY <2>5, <2>6
<1> QED  BY <1>1, <1>2, <1>3, <1>4, <1>5, <1>6, <1>7, <1>8

(* After the work: the verdict, the retries and what is said at the end.   *)
LEMMA EndControl ==
    ASSUME AgentInv, ControlInv,
           \/ PreflightFails \/ Judge \/ (\E ok \in BOOLEAN : VerifyTeam(ok))
           \/ GiveUp \/ RepeatFound \/ Finish \/ Tell \/ Cancel
    PROVE  ControlInv'
<1>0. /\ run \in RunRec /\ Phases /\ Chained /\ Judged /\ Rows
  BY DEF AgentInv, Types, ControlInv
<1>1. /\ UNCHANGED <<orch, agent, checkpoints>>
  BY DEF PreflightFails, Judge, VerifyTeam, GiveUp, RepeatFound, Finish, Tell, Cancel,
         orchVars, agentVars
<1>2. CASE PreflightFails
  <2>1. Moved("tell") /\ run.pc = "started" /\ row' = "failed" /\ reply' = PreflightReply
    BY <1>0, <1>2, GoToMoves DEF PreflightFails, RowEnds, Steps
  <2>2. Chained'
    BY <1>0, <1>1, <2>1, ChainRests DEF Moved, Set, Passed
  <2>3. reply' # Empty
    BY <2>1, EmptyStatus DEF PreflightReply, BlockedReply
  <2>4. Phases' /\ Judged' /\ Rows' /\ EndingsAgree'
    BY <1>0, <2>1, <2>3 DEF Moved, Set, Phases, Judged, Rows, EndingsAgree, Passed,
                           TeamTypes, Structured, Orchestrated
  <2> QED  BY <2>2, <2>4 DEF ControlInv
<1>3. CASE Judge
  <2>0. run.pc = "judge" /\ ~run.error /\ run.kind \in TeamTypes /\ row' = row
        /\ run.verdict # "completed"
    BY <1>0, <1>3 DEF Judge, Phases, RunRec
  <2>1. CASE Accepts(reply)
    <3>1. PICK pc \in {"verify", "finish"} : run' = [run EXCEPT !.verdict = "completed", !.pc = pc]
      BY <1>3, <2>1 DEF Judge
    <3>2. Set(run.kind, pc, run.next, run.error, "completed")
      <4> DEFINE p == [run EXCEPT !.verdict = "completed"]
      <4>1. /\ p \in RunRec /\ p.kind = run.kind /\ p.next = run.next
            /\ p.error = run.error /\ p.verdict = "completed"
        BY <1>0 DEF RunRec
      <4>2. run' = [p EXCEPT !.pc = pc]
        BY <3>1
      <4> HIDE DEF p
      <4> QED  BY <4>1, <4>2 DEF RunRec, Set
    <3>3. reply' = reply /\ telemetry' = telemetry /\ reply \in ReplyKind
      BY <1>0, <1>3, <2>0, <2>1 DEF Judge, agentVars, Judged
    <3>4. Accepts(reply)'
      BY <2>1, <3>2, <3>3 DEF Accepts, Unread, Unresolved, Set
    <3>5. Chained'
      BY <1>0, <1>1, <2>0, <3>2, ChainRests DEF Set, Passed
    <3>6. reply.status # "empty"
      BY <2>1 DEF Accepts
    <3>7. Phases' /\ Rows' /\ EndingsAgree'
      BY <1>0, <2>0, <3>2 DEF Set, Phases, Rows, EndingsAgree, TeamTypes,
                             Structured, Orchestrated
    <3>8. Judged'
      BY <1>0, <1>1, <2>0, <3>2, <3>3, <3>4, <3>6 DEF Set, Judged, Passed
    <3> QED  BY <3>5, <3>7, <3>8 DEF ControlInv
  <2>2. CASE ~Accepts(reply)
    <3>1. Moved("again") /\ reply' = Rejection(reply)
      BY <1>0, <1>3, <2>2, GoToMoves DEF Judge, GoTo, Steps
    <3>2. reply'.status # "empty"
      <4>1. CASE reply.status # "empty"
        BY <3>1, <4>1, RejectionIsReply
      <4>2. CASE reply.status = "empty"
        BY <3>1, <4>2 DEF Rejection, ContractError
      <4> QED  BY <4>1, <4>2
    <3>3. Chained'
      BY <1>0, <1>1, <2>0, <3>1, ChainRests DEF Moved, Set, Passed
    <3>4. Phases' /\ Rows' /\ EndingsAgree'
      BY <1>0, <2>0, <3>1 DEF Moved, Set, Phases, Rows, EndingsAgree
    <3>5. Judged'
      BY <1>0, <1>1, <2>0, <3>1, <3>2 DEF Moved, Set, Judged, Passed
    <3> QED  BY <3>3, <3>4, <3>5 DEF ControlInv
  <2> QED  BY <2>1, <2>2
<1>4. ASSUME NEW ok \in BOOLEAN, VerifyTeam(ok) PROVE ControlInv'
  <2>0. run.pc = "verify" /\ ~run.error /\ run.kind \in TeamTypes /\ row' = row
        /\ telemetry' = telemetry
    BY <1>0, <1>4 DEF VerifyTeam, Phases, agentVars
  <2>1. CASE ok
    <3>1. Moved("finish") /\ reply' = reply
      BY <1>0, <1>4, <2>1, GoToMoves DEF VerifyTeam, Steps
    <3>2. Chained'
      BY <1>0, <1>1, <2>0, <3>1, ChainRests DEF Moved, Set, Passed
    <3>3. Accepts(reply) => Accepts(reply)'
      BY <2>0, <3>1 DEF Moved, Set, Accepts, Unread, Unresolved
    <3>4. Phases' /\ Judged' /\ Rows' /\ EndingsAgree'
      BY <1>0, <1>1, <2>0, <3>1, <3>3
      DEF Moved, Set, Phases, Judged, Rows, EndingsAgree, Passed
    <3> QED  BY <3>2, <3>4 DEF ControlInv
  <2>2. CASE ~ok
    <3>1. Set(run.kind, "again", run.next, run.error, "failed")
      <4> DEFINE p == [run EXCEPT !.verdict = "failed"]
      <4>1. /\ p \in RunRec /\ p.kind = run.kind /\ p.next = run.next
            /\ p.error = run.error /\ p.verdict = "failed"
        BY <1>0 DEF RunRec
      <4>2. run' = [p EXCEPT !.pc = "again"]
        BY <1>4, <2>2 DEF VerifyTeam
      <4> HIDE DEF p
      <4> QED  BY <4>1, <4>2 DEF RunRec, Set
    <3>2. reply'.status # "empty"
      BY <1>4, <2>2 DEF VerifyTeam, BlockedReply
    <3>3. Chained'
      BY <1>0, <1>1, <2>0, <3>1, ChainRests DEF Set, Passed
    <3>4. Phases' /\ Judged' /\ Rows' /\ EndingsAgree'
      BY <1>0, <1>1, <2>0, <3>1, <3>2 DEF Set, Phases, Judged, Rows, EndingsAgree, Passed
    <3> QED  BY <3>3, <3>4 DEF ControlInv
  <2> QED  BY <2>1, <2>2
<1>5. CASE GiveUp \/ RepeatFound
  <2>0. run.pc = "again" /\ Moved("finish") /\ row' = row
    BY <1>0, <1>5, GoToMoves DEF GiveUp, RepeatFound, MayRetry, Steps
  <2>1. reply' = reply \/ reply'.status # "empty"
    BY <1>5 DEF GiveUp, RepeatFound, ContractError, orchVars
  <2>2. ~run.error /\ run.verdict # "completed" /\ run.kind \in TeamTypes
    BY <1>0, <2>0 DEF Phases, RunRec
  <2>3. Chained'
    BY <1>0, <1>1, <2>0, ChainRests DEF Moved, Set, Passed
  <2>4. Phases' /\ Judged' /\ Rows' /\ EndingsAgree'
    BY <1>0, <1>1, <2>0, <2>1, <2>2
    DEF Moved, Set, Phases, Judged, Rows, EndingsAgree, Passed
  <2> QED  BY <2>3, <2>4 DEF ControlInv
<1>6. CASE Finish
  <2>1. Moved("tell") /\ run.pc = "finish" /\ row' = Outcome /\ reply' = reply
    BY <1>0, <1>6, GoToMoves DEF Finish, RowEnds, Steps, orchVars
  <2>2. run.kind \in TeamTypes
    BY <1>0, <2>1 DEF Phases
  <2>3. row' # "running" /\ (run.error => row' # "completed")
    BY <1>0, <2>1 DEF Outcome, RunRec
  <2>4. ~run.error => reply # Empty
    BY <1>0, <2>1, EmptyStatus DEF Judged, Passed
  <2>5. Chained'
    BY <1>0, <1>1, <2>1, ChainRests DEF Moved, Set, Passed
  <2>6. Phases' /\ Judged' /\ Rows' /\ EndingsAgree'
    BY <1>0, <2>1, <2>2, <2>3, <2>4 DEF Moved, Set, Phases, Judged, Rows, EndingsAgree,
       Passed, TeamTypes, Structured, Orchestrated
  <2> QED  BY <2>5, <2>6 DEF ControlInv
<1>7. CASE Tell
  <2>1. /\ Moved("ended") /\ run.pc = "tell" /\ UNCHANGED <<row, reply>>
        /\ told' = IF run.error THEN "error"
                   ELSE IF reply = Empty THEN "nothing" ELSE "reply"
    BY <1>0, <1>7, GoToMoves DEF Tell, Steps, orchVars
  <2>2. Chained'
    BY <1>0, <1>1, <2>1, ChainRests DEF Moved, Set, Passed
  <2>3. EndingsAgree'
    BY <1>0, <2>1 DEF Moved, Set, Rows, EndingsAgree
  <2>4. Phases' /\ Judged' /\ Rows'
    BY <1>0, <2>1 DEF Moved, Set, Phases, Judged, Rows, Passed
  <2> QED  BY <2>2, <2>3, <2>4 DEF ControlInv
<1>8. CASE Cancel
  <2>1. Moved("cancelled") /\ run.pc \notin {"idle", "ended", "cancelled"}
    BY <1>0, <1>8, GoToMoves DEF Cancel, Steps
  <2>2. Chained'
    BY <1>0, <1>1, <2>1, ChainRests DEF Moved, Set, Passed
  <2>3. Phases' /\ Judged' /\ Rows' /\ EndingsAgree'
    BY <1>0, <2>1 DEF Moved, Set, Phases, Judged, Rows, EndingsAgree, Passed
  <2> QED  BY <2>2, <2>3 DEF ControlInv
<1> QED  BY <1>2, <1>3, <1>4, <1>5, <1>6, <1>7, <1>8

LEMMA ControlNext == AgentInv /\ ControlInv /\ [Next]_vars => ControlInv'
<1> SUFFICES ASSUME AgentInv, ControlInv, [Next]_vars PROVE ControlInv'
  OBVIOUS
<1>1. CASE UNCHANGED vars
  <2>1. UNCHANGED <<run, row, checkpoints, told, orch, reply, agent, telemetry>>
    BY <1>1 DEF vars, agentVars, orchVars, teamVars
  <2>2. Phases' /\ Rows' /\ EndingsAgree' /\ Chained'
    BY <2>1 DEF ControlInv, Phases, Rows, EndingsAgree, Chained, Passed, DoneAt
  <2>3. Judged'
    BY <2>1 DEF ControlInv, Judged, Passed, Accepts, Unread, Unresolved
  <2> QED  BY <2>2, <2>3 DEF ControlInv
<1> QED  BY <1>1, StartsControl, WorkControl, EndControl DEF Next, Work, Rest

THEOREM ControlHolds == Spec => []ControlInv
BY ControlInit, ControlNext, AgentsHold, PTL DEF Spec

(* A member of a chain starts only after those before it came back without *)
(* an exception, with their checkpoints written, however long the chain.   *)
THEOREM ChainsInOrder == Spec => []ChainInOrder
<1>1. AgentInv /\ ControlInv => ChainInOrder
  <2> SUFFICES ASSUME AgentInv, ControlInv, run.kind = "chain", NEW a \in Agent,
                      agent[a].pc # "none", NEW b \in 1..(a - 1)
               PROVE  DoneAt(b)
    BY DEF ChainInOrder, DoneAt, Whole
  <2>0. a \in Nat /\ 1..a \subseteq Agent
    OBVIOUS
  <2>1. b \in Nat /\ b < a /\ b \in 1..a
    BY <2>0
  <2>2. b \in Agent
    BY <2>0, <2>1
  <2>3. a <= run.next /\ run.next \in Nat
    BY DEF ControlInv, Chained, AgentInv, Types, RunRec
  <2> QED  BY <2>0, <2>1, <2>2, <2>3 DEF ControlInv, Chained
<1> QED  BY <1>1, AgentsHold, ControlHolds, PTL

(* What the row and the chat say at the end of a run agrees, whichever of  *)
(* the teams, replies, failures, retries and verdicts led there.           *)
THEOREM EndsAgree == Spec => []EndingsAgree
BY ControlHolds, PTL DEF ControlInv

(* A row is completed only by a run that earned it, for any policy, number *)
(* of retries and sequence of replies.                                     *)
THEOREM CompletionEarned == Spec => CompletedIsEarned
<1>1. AgentInv /\ ControlInv /\ [Next]_vars => (row' = "completed" /\ row # row' => Earned)
  <2> SUFFICES ASSUME AgentInv, ControlInv, [Next]_vars, row' = "completed", row # row'
               PROVE  Earned
    OBVIOUS
  <2>0. run \in RunRec /\ Phases /\ Chained /\ Judged
    BY DEF AgentInv, Types, ControlInv
  <2>1. CASE OrchestratorEnds
    <3>1. run.kind = "dynamic" /\ orch.pc = "replied"
      BY <2>1 DEF OrchestratorEnds, RowEnds
    <3> QED  BY <3>1 DEF Earned, TeamTypes, Structured, Orchestrated
  <2>2. CASE Finish
    <3>1. run.pc = "finish" /\ ~run.error /\ run.verdict = "completed"
      BY <2>0, <2>2 DEF Finish, RowEnds, Outcome, RunRec
    <3>2. /\ Passed /\ run.kind \in TeamTypes /\ reply \in ReplyKind /\ Accepts(reply)
          /\ (run.kind \in Orchestrated => orch.pc = "replied")
      BY <2>0, <3>1 DEF Passed, Phases, Judged
    <3>3. run.kind = "chain" => \A a \in Agent : DoneAt(a)
      BY <2>0, <3>2 DEF Chained
    <3>4. ~Unread(run.kind) =>
            /\ reply.status \in {"completed", "none"}
            /\ FailOnDefer \/ RequireBlockers => reply.status = "completed"
            /\ RequireBlockers => reply.full
            /\ reply.failed = {}
            /\ EnforceShell => Unresolved = {}
      BY <3>2 DEF Accepts, ReplyKind
    <3> QED  BY <3>2, <3>3, <3>4 DEF Earned, DoneAt, Whole, TeamTypes, Structured, Orchestrated
  <2>3. CASE ~OrchestratorEnds /\ ~Finish
    <3>1. row' \in {row, "running", "failed"}
      BY <2>3 DEF Next, Rest, Work, vars, teamVars, StartDynamic, NoTeam, StartTeam,
         PreflightFails, BeginWork, OrchestratorWorks, StartMember, MemberWorks,
         ChainBreaks, CheckMember, ChainGoesOn, AllReturn, Judge, VerifyTeam, GiveUp,
         RepeatFound, Retry, Tell, Cancel, RowBegins, RowEnds
    <3> QED  BY <3>1
  <2> QED  BY <2>1, <2>2, <2>3
<1> QED  BY <1>1, AgentsHold, ControlHolds, PTL DEF Spec, CompletedIsEarned
=============================================================================
