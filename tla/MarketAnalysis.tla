---------------------------- MODULE MarketAnalysis ----------------------------
(***************************************************************************)
(* The market analysis of the local web application.  MarketAnalysis-      *)
(* Service.processUpload takes the active provider connection, awaits the  *)
(* provider (Gemini in up to four modes, the last without search) and      *)
(* saves the run, completed or failed, in a JSON file that is read,        *)
(* repaired and written whole, without an await in between.  Uploads       *)
(* interleave at the await, a write may fail, and the process may stop at  *)
(* any time; both may leave the file half written.  Names that every       *)
(* specification has bear the prefix Market, for the modules that extend   *)
(* this one and another.                                                   *)
(***************************************************************************)
EXTENDS Arrays, FiniteSetsExt

CONSTANTS
  Uploads,      (* the uploads, each a run with an id of its own             *)
  MaxRuns,      (* how many runs the file keeps: 100                         *)
  MaxCode,      (* the last project code of five digits: 99999               *)
  IdOrder,      (* how the ids of runs are sorted: a number for each         *)
  LegacyFiles,  (* the files an earlier version, or an editor, left behind   *)
  Connections,  (* the provider connections that may be made active          *)
  Start,        (* the time of the first upload, after all of those         *)
  MaxStops      (* bound: how often the process stops                        *)

Modes == {"grounded_schema", "grounded_json", "grounded_text", "plain_schema", "text", "mock"}

RunRecords ==
  [id : DOMAIN IdOrder, code : Nat, createdAt : Int, valid : BOOLEAN,
   status : {"completed", "failed"}, mode : Modes, grounded : BOOLEAN, priced : BOOLEAN]

ASSUME LimitsAssumption == MaxRuns \in Nat \ {0} /\ MaxCode \in Nat /\ Start \in Int

ASSUME IdsAssumption ==
  /\ Uploads \subseteq DOMAIN IdOrder
  /\ IdOrder \in [DOMAIN IdOrder -> Int]
  /\ \A x, y \in DOMAIN IdOrder : IdOrder[x] = IdOrder[y] => x = y

\* The ids in a file are different, and no upload to come is given one of them:
\* they are random (randomUUID).
ASSUME LegacyFilesAssumption ==
  \A f \in LegacyFiles :
    /\ f.state = "held" /\ f.runs \in Seq(RunRecords) /\ f.next \in Nat
    /\ \A i \in 1..Len(f.runs) : f.runs[i].id \notin Uploads
    /\ \A i, j \in 1..Len(f.runs) : f.runs[i].id = f.runs[j].id => i = j

VARIABLES
  file,        (* the file of runs: its state and, if held, runs and next    *)
  place,       (* where each upload is                                       *)
  asked,       (* the provider, the mode and the start time of its request   *)
  connection,  (* the active connection of the provider settings             *)
  mock,        (* which flags of the process environment force the mock      *)
  clock,       (* the time: how many uploads have started                    *)
  stops,
  issued       (* history: the codes shown, since the file was last lost     *)

marketVars == <<file, place, asked, connection, mock, clock, stops, issued>>

UploadPlaces == {"new", "asking", "recorded", "rejected", "lost"}
MockFlags == {"AI_FIRST_FORCE_MOCK", "AI_FIRST_FORCE_MARKET_MOCK"}
NotAsked == [provider |-> "none", mode |-> "none", start |-> Start]

------------------------------------------------------------------------------
(* The store.  An entry without a project code has code 0, a file without  *)
(* nextProjectSequence has next 0.                                         *)

Empty == [state |-> "held", runs |-> << >>, next |-> 1]
Unreadable(state) == [state |-> state, runs |-> << >>, next |-> 0]

Earlier(x, y) ==
  \/ x.createdAt < y.createdAt
  \/ x.createdAt = y.createdAt /\ IdOrder[x.id] < IdOrder[y.id]

\* Mutant: of entries with the same code, each keeps it.
KeepsCodeShared(runs, i) == runs[i].code # 0

\* The first entry with a code keeps it.
KeepsCode(runs, i) ==
  /\ runs[i].code # 0
  /\ \A j \in 1..Len(runs) : runs[j].code = runs[i].code /\ j # i => Earlier(runs[i], runs[j])

\* The others are given new codes, in the order of their creation.
normalizeStore(runs, next) ==
  LET all     == 1..Len(runs)
      kept    == {i \in all : KeepsCode(runs, i)}
      highest == Max({runs[i].code : i \in kept} \cup {0})
      first   == Max({next, highest + 1})
      before(i) == {j \in all \ kept : Earlier(runs[j], runs[i])}
  IN  [state |-> "held",
       runs |-> [i \in all |-> IF i \in kept THEN runs[i] ELSE
                   [runs[i] EXCEPT !.code = first + Cardinality(before(i))]],
       next |-> first + Cardinality(all \ kept)]

\* The schema accepts the entry; it knows codes of five digits.
Parses(run) == run.valid /\ run.code <= MaxCode

\* What a read of the file f returns: no runs if f is absent or broken.
readStore(f) ==
  IF f.state # "held" THEN Empty
  ELSE normalizeStore(Keeping(f.runs, {run \in Range(f.runs) : Parses(run)}), f.next)

\* What it repairs is written; a broken file is copied and left as it is.
FileAfterRead(f) == IF f.state = "held" THEN readStore(f) ELSE f

\* The codes that the runs of a store are shown with.
CodesOf(store) == {[id |-> run.id, code |-> run.code] : run \in Range(store.runs)}

\* A repair that cannot be written is taken for a broken file: the read
\* returns no runs, and what is saved next replaces the file.
Reads(f, known) ==
  {[store |-> readStore(f), issued |-> known]} \cup
    IF FileAfterRead(f) = f THEN {} ELSE {[store |-> Empty, issued |-> {}]}

\* Mutant: the file keeps every run.
KeptAll(runs) == runs

\* The newest runs that the file keeps.
Kept(runs) == SubSeq(runs, 1, IF Len(runs) > MaxRuns THEN MaxRuns ELSE Len(runs))

\* The store with a run in front; a run that is there keeps its code.
WithRun(store, run) ==
  LET existing == {other \in Range(store.runs) : other.id = run.id}
      code     == IF existing = {} THEN store.next ELSE (CHOOSE r \in existing : TRUE).code
      others   == Keeping(store.runs, {other \in Range(store.runs) : other.id # run.id})
  IN  [state |-> "held", runs |-> Kept(<<[run EXCEPT !.code = code]>> \o others),
       next |-> IF existing = {} THEN store.next + 1 ELSE store.next]

\* What a save may leave in the file, and the codes known after it.
save(f, known, run) ==
  {LET store == WithRun(read.store, run)
   IN  [file |-> store, issued |-> read.issued \cup CodesOf(store)] : read \in Reads(f, known)}

\* What a save that throws may leave: the file as it was or as the read
\* repaired it, or a part of what was to be written.
FailedSave(f, known) ==
  {[file |-> f, issued |-> known], [file |-> FileAfterRead(f), issued |-> known],
   [file |-> Unreadable("broken"), issued |-> {}]}

------------------------------------------------------------------------------
(* The service.                                                            *)

Run(u, request, status, result) ==
  [id |-> u, code |-> 0, createdAt |-> request.start, valid |-> TRUE, status |-> status,
   mode |-> request.mode, grounded |-> result.grounded, priced |-> result.priced]

NoResult == [grounded |-> FALSE, priced |-> FALSE]

Leaves(outcome) == file' = outcome.file /\ issued' = outcome.issued

\* The run is saved as failed and the request rejects; if that cannot be
\* written either, there is no record.
SaveFailed(u, request, f, known) ==
  \/ /\ \E outcome \in save(f, known, Run(u, request, "failed", NoResult)) : Leaves(outcome)
     /\ place' = [place EXCEPT ![u] = "recorded"]
  \/ /\ \E outcome \in FailedSave(f, known) : Leaves(outcome)
     /\ place' = [place EXCEPT ![u] = "rejected"]

\* The run is saved as completed; what the save throws is caught as a failure.
SaveCompleted(u, request, result) ==
  \/ /\ \E outcome \in save(file, issued, Run(u, request, "completed", result)) : Leaves(outcome)
     /\ place' = [place EXCEPT ![u] = "recorded"]
  \/ \E outcome \in FailedSave(file, issued) : SaveFailed(u, request, outcome.file, outcome.issued)

\* The mode of the first request to a provider.
FirstMode(provider) ==
  IF mock # {} THEN "mock" ELSE IF provider = "gemini" THEN "grounded_schema" ELSE "text"

\* The upload was segmented: its request takes the connection that is active
\* now.  Without a key it fails; the mock answers at once.
processUpload(u) ==
  /\ place[u] = "new"
  /\ clock' = clock + 1
  /\ LET request == [provider |-> connection.provider, start |-> clock',
                     mode |-> FirstMode(connection.provider)]
     IN  CASE mock # {} -> SaveCompleted(u, request, NoResult) /\ asked' = asked
           [] mock = {} /\ ~ connection.key -> SaveFailed(u, request, file, issued) /\ asked' = asked
           [] OTHER -> /\ place' = [place EXCEPT ![u] = "asking"]
                       /\ asked' = [asked EXCEPT ![u] = request]
                       /\ UNCHANGED <<file, issued>>
  /\ UNCHANGED <<connection, mock, stops>>

\* The file cannot be stored or segmented: processUpload throws before its try.
SegmentationFails(u) ==
  /\ place[u] = "new"
  /\ place' = [place EXCEPT ![u] = "rejected"]
  /\ UNCHANGED <<file, asked, connection, mock, clock, stops, issued>>

\* The mode that is tried when Gemini answers 400 to this one.
NextMode == [grounded_schema |-> "grounded_json", grounded_json |-> "grounded_text",
             grounded_text |-> "plain_schema"]

GeminiRefusesMode(u) ==
  /\ place[u] = "asking"
  /\ asked[u].mode \in DOMAIN NextMode
  /\ asked' = [asked EXCEPT ![u].mode = NextMode[@]]
  /\ UNCHANGED <<file, place, connection, mock, clock, stops, issued>>

\* Mutant: a table that Gemini filled without search is left as it is.
sanitizedAsAnswered(mode, result) == result

\* Prices of a table that was answered without search and names no source are
\* removed.
sanitized(mode, result) ==
  IF mode = "plain_schema" /\ ~ result.grounded THEN [result EXCEPT !.priced = FALSE] ELSE result

ProviderAnswers(u) ==
  /\ place[u] = "asking"
  /\ \E result \in [grounded : IF asked[u].provider = "gemini" THEN BOOLEAN ELSE {FALSE},
                    priced : BOOLEAN] :
       SaveCompleted(u, asked[u], sanitized(asked[u].mode, result))
  /\ asked' = [asked EXCEPT ![u] = NotAsked]
  /\ UNCHANGED <<connection, mock, clock, stops>>

\* The request fails otherwise, or its text is not the JSON asked for.
ProviderFails(u) ==
  /\ place[u] = "asking"
  /\ SaveFailed(u, asked[u], file, issued)
  /\ asked' = [asked EXCEPT ![u] = NotAsked]
  /\ UNCHANGED <<connection, mock, clock, stops>>

------------------------------------------------------------------------------
(* The pages around it.                                                    *)

\* If what the read repairs cannot be written, nothing is shown.
listRuns ==
  /\ \/ file' = FileAfterRead(file) /\ issued' = issued \cup CodesOf(readStore(file))
     \/ FileAfterRead(file) # file /\ \E outcome \in FailedSave(file, issued) : Leaves(outcome)
  /\ UNCHANGED <<place, asked, connection, mock, clock, stops>>

saveProviderConnection ==
  /\ connection' \in Connections
  /\ UNCHANGED <<file, place, asked, mock, clock, stops, issued>>

\* Every page about documents applies the stored settings to the environment.
applyStoredProviderSettingsToProcessEnv ==
  /\ mock' = mock \ {"AI_FIRST_FORCE_MOCK"}
  /\ UNCHANGED <<file, place, asked, connection, clock, stops, issued>>

\* The process stops, perhaps within a write, and is started again, perhaps
\* with another environment.
Stop ==
  /\ stops < MaxStops
  /\ stops' = stops + 1
  /\ place' = [u \in Uploads |-> IF place[u] = "asking" THEN "lost" ELSE place[u]]
  /\ \/ UNCHANGED <<file, issued>>
     \/ file' = Unreadable("broken") /\ issued' = {}
  /\ asked' = [u \in Uploads |-> NotAsked]
  /\ mock' \in SUBSET MockFlags
  /\ UNCHANGED <<connection, clock>>

MarketInit ==
  /\ file \in LegacyFiles \cup {Unreadable("absent")}
  /\ place = [u \in Uploads |-> "new"]
  /\ asked = [u \in Uploads |-> NotAsked]
  /\ connection \in Connections
  /\ mock \in SUBSET MockFlags
  /\ clock = Start
  /\ stops = 0
  /\ issued = {}

MarketNext ==
  \/ \E u \in Uploads :
       \/ processUpload(u) \/ SegmentationFails(u) \/ GeminiRefusesMode(u)
       \/ ProviderAnswers(u) \/ ProviderFails(u)
  \/ listRuns
  \/ saveProviderConnection
  \/ applyStoredProviderSettingsToProcessEnv
  \/ Stop

MarketSpec == MarketInit /\ [][MarketNext]_marketVars
------------------------------------------------------------------------------
(* Types; a stored run is no upload still under way, and the file never    *)
(* holds more than it should once a run was saved.                         *)
MarketTypeOK ==
  /\ place \in [Uploads -> UploadPlaces]
  /\ \A u \in Uploads : IF place[u] = "asking" THEN asked[u].mode \in Modes \ {"mock"}
                                           ELSE asked[u] = NotAsked
  /\ connection \in Connections /\ mock \in SUBSET MockFlags
  /\ \A run \in Range(file.runs) : run.id \in Uploads =>
       place[run.id] = "recorded" /\ Len(file.runs) <= MaxRuns

(* As long as the file is not lost to a failed write or a stop within one, *)
(* a project code names one run and a run keeps the code it was first      *)
(* shown with: whatever codes an earlier file lacks or repeats, whatever   *)
(* entries are dropped as invalid or as too old, and whichever of a list   *)
(* or a save is the first to repair it (market-analysis-store.ts:77-192).  *)
CodesIdentifyRuns ==
  \A x, y \in issued : x.id = y.id <=> x.code = y.code

(* Whichever of its four modes Gemini accepted and whatever it answered, a *)
(* stored run that was answered without search shows no market prices      *)
(* unless it names its sources (market-analysis-provider.ts:217-267).      *)
BenchmarkIsTraceable ==
  \A run \in Range(file.runs) :
    run.id \in Uploads /\ run.mode = "plain_schema" /\ run.priced => run.grounded
==============================================================================
