--------------------------- MODULE DownloadCaches ---------------------------
(***************************************************************************)
(* The downloads that are kept: company facts, a file per company           *)
(* (mds/edgar.py, mds/buyback.py), panels, a file per field                 *)
(* (mds/longdata.py), and the pages of a request for bars                   *)
(* (mds/alpaca_data.py).  Scripts and the lab's handlers share the files    *)
(* without a lock.  A file is looked for, truncated and written in steps    *)
(* between which others run and the process may die; and what has been      *)
(* written is never asked for again, so what it was written from matters    *)
(* for ever.                                                                *)
(***************************************************************************)
EXTENDS Integers, Sequences

CONSTANTS
    Loaders,        \* processes and threads that may load company facts
    Companies,      \* tickers
    Tickers,        \* the companies a load goes through, in order
    Known,          \* those SEC lists
    Attempts,       \* requests a rate-limited fetch makes
    MaxLoadsBegun,  \* a bound on the loads
    Scripts,        \* processes that may read panels
    NumPanels,      \* the files of a download; the risk-free rate is the last
    MaxRuns,        \* a bound on the scripts run
    Pages,          \* the pages of an answer with bars
    MaxWaits        \* a bound on the requests for bars that are rate-limited

CikMap == "cik_map"                     \* company_tickers.json, cached like a company

ASSUME DownloadAssumption ==
    /\ CikMap \notin Companies
    /\ Tickers \in Seq(Companies) /\ Known \subseteq Companies
    /\ Attempts \in Nat \ {0} /\ NumPanels \in Nat \ {0} /\ Pages \in Nat \ {0}
    /\ MaxLoadsBegun \in Nat /\ MaxRuns \in Nat /\ MaxWaits \in Nat

VARIABLES
    factFile,       \* factFile[f]: the file of a company, or the map, on disk
    loader,         \* loader[p]: how far a load has come
    loadsBegun,
    gave,           \* history: files whose facts the server has given
    refused,        \* history: companies it has none for, or was too busy for
    broken          \* history: files whose writer died over them

factVars == <<factFile, loader, loadsBegun, gave, refused, broken>>

Files == Companies \cup {CikMap}
Wanted == <<CikMap>> \o Tickers         \* a load reads the map, then a file per company
ListedFiles == Known \cup {CikMap}

Parsed == {"facts", "empty"}            \* what is written; a loader is `at` it meanwhile
Content == Parsed \cup {"absent", "torn"}
Ended == {"idle", "done", "raised"}

Loader == [at : Ended \cup {"look", "ask"} \cup Parsed,
           k : 1 .. Len(Tickers) + 2,   \* the file it is at
           refresh : BOOLEAN, tries : 0 .. Attempts,
           got : SUBSET Files]          \* the facts it will return

FactsTypeOK ==
    /\ factFile \in [Files -> Content]
    /\ loader \in [Loaders -> Loader]
    /\ loadsBegun \in 0 .. MaxLoadsBegun
    /\ gave \in SUBSET Files /\ refused \in SUBSET Files /\ broken \in SUBSET Files

LoadFrom(at, refresh) == [at |-> at, k |-> 1, refresh |-> refresh, tries |-> 0, got |-> {}]

FactsInit ==
    /\ factFile = [f \in Files |-> "absent"]
    /\ loader = [p \in Loaders |-> LoadFrom("idle", FALSE)]
    /\ loadsBegun = 0
    /\ gave = {} /\ refused = {} /\ broken = {}

File(p) == Wanted[loader[p].k]
Looks(p) == loader[p].at = "look" /\ loader[p].k =< Len(Wanted)
Requesting(p) == loader[p].at = "ask"
Writes(p) == loader[p].at \in Parsed

(* The map is never refreshed, and a 429 for it is an error.               *)
Refreshed(p) == loader[p].refresh /\ File(p) # CikMap

Becomes(p, at) == loader' = [loader EXCEPT ![p].at = at]

(* On to the next file, with this one's facts if it has any.               *)
MovesOn(p, content) ==
    loader' = [loader EXCEPT ![p] =
                [at |-> "look", k |-> @.k + 1, refresh |-> @.refresh, tries |-> 0,
                 got |-> IF content = "facts" THEN @.got \cup {File(p)} ELSE @.got]]

-----------------------------------------------------------------------------
(* load_all_facts, load_buyback_facts: file by file.                       *)
LoadBegins(p, refresh) ==
    /\ loader[p].at \in Ended /\ loadsBegun < MaxLoadsBegun
    /\ loadsBegun' = loadsBegun + 1
    /\ loader' = [loader EXCEPT ![p] = LoadFrom("look", refresh)]
    /\ UNCHANGED <<factFile, gave, refused, broken>>

LoadEnds(p) ==
    /\ loader[p].at = "look" /\ loader[p].k > Len(Wanted)
    /\ Becomes(p, "done")
    /\ UNCHANGED <<factFile, loadsBegun, gave, refused, broken>>

CompanySkipped(p) ==
    /\ Looks(p) /\ File(p) \notin ListedFiles
    /\ MovesOn(p, "absent")
    /\ UNCHANGED <<factFile, loadsBegun, gave, refused, broken>>

(* A file that exists is read; one that does not parse ends the load.      *)
CacheHit(p) ==
    /\ Looks(p) /\ File(p) \in ListedFiles
    /\ factFile[File(p)] # "absent" /\ ~Refreshed(p)
    /\ IF factFile[File(p)] = "torn" THEN Becomes(p, "raised") ELSE MovesOn(p, factFile[File(p)])
    /\ UNCHANGED <<factFile, loadsBegun, gave, refused, broken>>

CacheMiss(p) ==
    /\ Looks(p) /\ File(p) \in ListedFiles
    /\ factFile[File(p)] = "absent" \/ Refreshed(p)
    /\ Becomes(p, "ask")
    /\ UNCHANGED <<factFile, loadsBegun, gave, refused, broken>>

-----------------------------------------------------------------------------
(* fetch_companyfacts, _fetch_raw and cik_map: an answer that counts is     *)
(* parsed and the file truncated.                                          *)
Truncated(p, content) ==
    /\ Becomes(p, content)
    /\ factFile' = [factFile EXCEPT ![File(p)] = "torn"]

FactsGiven(p) ==
    /\ Requesting(p)
    /\ gave' = gave \cup {File(p)}
    /\ Truncated(p, "facts")
    /\ UNCHANGED <<loadsBegun, refused, broken>>

(* A 404, or the last attempt rate-limited: kept as a company without      *)
(* facts.                                                                  *)
NoFacts(p) ==
    /\ Requesting(p) /\ File(p) # CikMap
    /\ refused' = refused \cup {File(p)}
    /\ Truncated(p, "empty")
    /\ UNCHANGED <<loadsBegun, gave, broken>>

NotFound(p) == NoFacts(p)

LastTimeBusy(p) == loader[p].tries + 1 = Attempts /\ NoFacts(p)

Busy(p) ==
    /\ Requesting(p) /\ File(p) # CikMap /\ loader[p].tries + 1 < Attempts
    /\ loader' = [loader EXCEPT ![p].tries = @ + 1]
    /\ UNCHANGED <<factFile, loadsBegun, gave, refused, broken>>

\* Mutant: an error is kept as a company without facts.
BugFetchFails(p) ==
    /\ Requesting(p)
    /\ Truncated(p, "empty")
    /\ UNCHANGED <<loadsBegun, gave, refused, broken>>

(* Any other answer, or none, is raised, and leaves the file alone.        *)
FetchFails(p) ==
    /\ Requesting(p)
    /\ Becomes(p, "raised")
    /\ UNCHANGED <<factFile, loadsBegun, gave, refused, broken>>

(* A short file written from its start over a longer one leaves the rest   *)
(* of that one behind it.                                                  *)
Overwritten(old, new) == IF old = "facts" /\ new = "empty" THEN "torn" ELSE new

FactsWritten(p) ==
    /\ Writes(p)
    /\ factFile' = [factFile EXCEPT ![File(p)] = Overwritten(@, loader[p].at)]
    /\ MovesOn(p, loader[p].at)
    /\ UNCHANGED <<loadsBegun, gave, refused, broken>>

LoadKilled(p) ==
    /\ loader[p].at \notin Ended
    /\ broken' = IF Writes(p) THEN broken \cup {File(p)} ELSE broken
    /\ Becomes(p, "idle")
    /\ UNCHANGED <<factFile, loadsBegun, gave, refused>>

FactsNext ==
    \E p \in Loaders :
        \/ \E refresh \in BOOLEAN : LoadBegins(p, refresh)
        \/ LoadEnds(p) \/ LoadKilled(p)
        \/ CompanySkipped(p) \/ CacheHit(p) \/ CacheMiss(p)
        \/ FactsGiven(p) \/ NotFound(p) \/ LastTimeBusy(p) \/ Busy(p) \/ FetchFails(p)
        \/ FactsWritten(p)

(* A file says what the server said: facts it has given, or nothing where   *)
(* it has none or was too busy, never because a request failed              *)
(* (edgar.py fetch_companyfacts).                                          *)
FilesAreAnswers ==
    \A f \in Files : /\ factFile[f] = "facts" => f \in gave
                     /\ factFile[f] = "empty" => f \in refused

(* However often loads were broken off, a load that ends returns every      *)
(* company SEC lists but those it was refused, and real facts               *)
(* (edgar.py load_all_facts, buyback.py load_buyback_facts).               *)
LoadsAreResumed ==
    \A p \in Loaders : loader[p].at = "done" =>
        /\ loader[p].got \subseteq gave \cap ListedFiles
        /\ \A i \in DOMAIN Tickers : Tickers[i] \in Known \ refused => Tickers[i] \in loader[p].got

(* A file that does not parse is being written, or its writer died, or two  *)
(* that the server had answered differently wrote it at once                *)
(* (edgar.py fetch_companyfacts, cik_map).                                 *)
TornForACause ==
    \A f \in Files : factFile[f] = "torn" =>
        \/ f \in broken \/ f \in gave \cap refused
        \/ \E p \in Loaders : Writes(p) /\ File(p) = f

-----------------------------------------------------------------------------
(* fetch_panels.  A panel is the number of the run that downloaded it.      *)
VARIABLES
    onDisk,         \* onDisk[i]: the i-th file
    script,         \* script[s]: how far a script has come
    runs,
    mixed           \* history: the files may be of several downloads

panelVars == <<onDisk, script, runs, mixed>>

Absent == 0
Torn == -1

PanelFiles == 1 .. NumPanels
Downloading == {"open", "fill"}

\* `alone`: no other script has been downloading meanwhile, and a reader found
\* the files unmixed; `seen`: the panels it returns, by run.
Script == [at : Ended \cup Downloading \cup {"read"}, k : PanelFiles, run : 0 .. MaxRuns,
           alone : BOOLEAN, seen : [PanelFiles -> 0 .. MaxRuns]]

PanelsTypeOK ==
    /\ onDisk \in [PanelFiles -> Torn .. MaxRuns]
    /\ script \in [Scripts -> Script]
    /\ runs \in 0 .. MaxRuns
    /\ mixed \in BOOLEAN

NothingSeen == [i \in PanelFiles |-> 0]
RunFrom(at, run, alone) == [at |-> at, k |-> 1, run |-> run, alone |-> alone, seen |-> NothingSeen]

PanelsInit ==
    /\ onDisk = [i \in PanelFiles |-> Absent]
    /\ script = [s \in Scripts |-> RunFrom("idle", 0, FALSE)]
    /\ runs = 0
    /\ mixed = FALSE

Cached == \A i \in PanelFiles : onDisk[i] # Absent
Downloads(s) == script[s].at \in Downloading
OtherDownloads(s) == \E r \in Scripts \ {s} : Downloads(r)

CacheRead(s) ==
    /\ script[s].at \in Ended /\ runs < MaxRuns /\ Cached
    /\ script' = [script EXCEPT ![s] = RunFrom("read", 0, ~mixed /\ ~OtherDownloads(s))]
    /\ runs' = runs + 1
    /\ UNCHANGED <<onDisk, mixed>>

Downloaded(s, refresh) ==
    /\ script[s].at \in Ended /\ runs < MaxRuns
    /\ ~Cached \/ refresh
    /\ script' = [r \in Scripts |->
                    IF r = s THEN RunFrom("open", runs + 1, ~OtherDownloads(s))
                    ELSE IF script[r].at \in Ended THEN script[r]
                    ELSE [script[r] EXCEPT !.alone = FALSE]]
    /\ runs' = runs + 1
    /\ mixed' = (mixed \/ OtherDownloads(s))
    /\ UNCHANGED onDisk

(* File by file: opened, which truncates it, and filled.  What another      *)
(* script has put there meanwhile may leave a file that does not parse.    *)
PanelOpened(s) ==
    /\ script[s].at = "open"
    /\ onDisk' = [onDisk EXCEPT ![script[s].k] = Torn]
    /\ script' = [script EXCEPT ![s].at = "fill"]
    /\ UNCHANGED <<runs, mixed>>

Filled(s) ==
    /\ script[s].at = "fill"
    /\ \E content \in {script[s].run} \cup (IF onDisk[script[s].k] = Torn THEN {} ELSE {Torn}) :
          onDisk' = [onDisk EXCEPT ![script[s].k] = content]
    /\ UNCHANGED runs

PanelWritten(s) ==
    /\ Filled(s) /\ script[s].k < NumPanels
    /\ script' = [script EXCEPT ![s] = [script[s] EXCEPT !.at = "open", !.k = script[s].k + 1]]
    /\ UNCHANGED mixed

(* With the last file a script that was alone leaves one download.         *)
DownloadEnds(s) ==
    /\ Filled(s) /\ script[s].k = NumPanels
    /\ script' = [script EXCEPT ![s] =
                   [script[s] EXCEPT !.at = "done", !.seen = [i \in PanelFiles |-> script[s].run]]]
    /\ mixed' = (mixed /\ ~script[s].alone)

PanelRead(s) ==
    LET here == script[s]
        k == here.k
    IN  /\ here.at = "read"
        /\ script' = [script EXCEPT ![s] =
              IF onDisk[k] = Torn THEN [here EXCEPT !.at = "raised"]
              ELSE [here EXCEPT !.seen = [here.seen EXCEPT ![k] = onDisk[k]],
                                !.at = IF k = NumPanels THEN "done" ELSE "read",
                                !.k = IF k = NumPanels THEN k ELSE k + 1]]
        /\ UNCHANGED <<onDisk, runs, mixed>>

(* Some files are of this download, and the last is still of another: only *)
(* a refresh gets so far.                                                  *)
LeavesMixture(s) ==
    /\ script[s].at = "fill" \/ (script[s].at = "open" /\ script[s].k > 1)
    /\ onDisk[NumPanels] # Absent
    /\ ~(script[s].at = "fill" /\ script[s].k = NumPanels)

ScriptKilled(s) ==
    /\ script[s].at \notin Ended
    /\ mixed' = (mixed \/ LeavesMixture(s))
    /\ script' = [script EXCEPT ![s].at = "idle"]
    /\ UNCHANGED <<onDisk, runs>>

PanelsNext ==
    \E s \in Scripts :
        \/ CacheRead(s)
        \/ \E refresh \in BOOLEAN : Downloaded(s, refresh)
        \/ PanelOpened(s) \/ PanelWritten(s) \/ DownloadEnds(s) \/ PanelRead(s)
        \/ ScriptKilled(s)

(* Panels that are read together were downloaded together, however many     *)
(* downloads stopped half way before: the last file is not there until all  *)
(* the others are.  Two downloads at once, and a refresh that stops half    *)
(* way, are what the code does not meet; the next whole download mends it   *)
(* (longdata.py fetch_panels).                                             *)
OneDownload ==
    \A s \in Scripts : (script[s].at = "done" /\ script[s].alone) =>
        \E run \in 1 .. MaxRuns : script[s].seen = [i \in PanelFiles |-> run]

-----------------------------------------------------------------------------
(* fetch_bars: page by page, the token of the next page from the last; a    *)
(* rate-limited request is made again, for as long as it takes.            *)
VARIABLES
    token,          \* the page asked for; past the last when none is left
    received,       \* the pages of bars received
    waits

barVars == <<token, received, waits>>

BarsTypeOK == token \in 1 .. Pages + 1 /\ received \in Seq(1 .. Pages) /\ waits \in 0 .. MaxWaits

BarsInit == token = 1 /\ received = <<>> /\ waits = 0

Turn ==
    /\ token =< Pages
    /\ received' = Append(received, token)
    /\ token' = token + 1
    /\ UNCHANGED waits

Throttled ==
    /\ token =< Pages /\ waits < MaxWaits
    /\ waits' = waits + 1
    /\ UNCHANGED <<token, received>>

BarsNext == Turn \/ Throttled

(* However often the server was busy, the pages come once each and in       *)
(* order (alpaca_data.py fetch_bars).                                      *)
PagesComeOnce == received = [i \in 1 .. token - 1 |-> i]

-----------------------------------------------------------------------------
downloadVars == <<factVars, panelVars, barVars>>

DownloadInit == FactsInit /\ PanelsInit /\ BarsInit

FactsStep == FactsNext /\ UNCHANGED <<panelVars, barVars>>
PanelsStep == PanelsNext /\ UNCHANGED <<factVars, barVars>>
BarsStep == BarsNext /\ UNCHANGED <<factVars, panelVars>>

DownloadSpec == DownloadInit /\ [][FactsStep \/ PanelsStep \/ BarsStep]_downloadVars

(* What is downloaded and kept is whole: no answer is made up, lost to an   *)
(* error or joined with another's (mds/edgar.py, buyback.py, longdata.py,   *)
(* alpaca_data.py).                                                        *)
DownloadsAreWhole ==
    /\ FactsTypeOK /\ PanelsTypeOK /\ BarsTypeOK
    /\ FilesAreAnswers
    /\ LoadsAreResumed
    /\ TornForACause
    /\ OneDownload
    /\ PagesComeOnce
=============================================================================
