------------------------------- MODULE DocsPage --------------------------------
(***************************************************************************)
(* The API documentation at /swaggerui: a page the application renders     *)
(* from the configuration EnvCache loaded for that request, and the        *)
(* scripts the browser runs on it.                                         *)
(*                                                                         *)
(* An address is an origin and a path.  The page links its scripts below   *)
(* APP_BASE_URL, or below the origin the request seemed to have; the       *)
(* script swagger-initializer.js asks window.location.origin, the origin   *)
(* the user typed, for /openapi.yaml, whatever the base path.              *)
(*                                                                         *)
(* The scripts and the specification are static files: a fetch of one      *)
(* reads no state of the application, it reaches the site or does not, or  *)
(* is lost on the way.  Style sheets and icons change nothing here.        *)
(***************************************************************************)
EXTENDS EnvCache

CONSTANTS
    Origin, Path,
    Server,     \* the process that answers the request for the page
    Sites,      \* ways to deploy the application: the address "page" users open
                \* it at, the origin it "sees" in their requests, and "reach",
                \* the addresses its pages can load its files from
    Root,       \* the empty base path
    MaxFaults   \* bound: processes that die and fetches that get lost

ASSUME ServerAssumption == Server \in Proc
ASSUME FaultsAssumption == MaxFaults \in Nat
ASSUME SitesAssumption ==
    /\ Root \in Path
    /\ Sites \subseteq [page : Origin \X Path, sees : Origin, reach : SUBSET (Origin \X Path)]
    /\ \A s \in Sites : s.page \in s.reach
ASSUME MeaningAssumption ==
    \A t \in Text : Meaning[t] \in (Origin \X Path) \cup {Unset, Fail}

VARIABLES
    site,       \* the deployment, which never changes
    page,       \* the browser's page
    faults      \* faults so far

vars == <<envVars, site, page, faults>>

-------------------------------------------------------------------------------
Script == {"bundle", "preset", "initializer"}

PagePC == {"closed", "asking", "linked", "loaded", "fetching", "shown", "nospec", "blank", "error"}
Settled == {"shown", "nospec", "blank", "error"}

(* Why a page may go wrong (history): what .env meant did not reach the     *)
(* site, the copy was excused, .env was closed, a fetch was lost.           *)
Cause == {"none", "config", "stale", "locked", "lost"}

Page(pc, base, scripts, cause) ==
    [pc |-> pc, base |-> base, scripts |-> scripts, cause |-> cause]

Showing(pc) == page' = Page(pc, None, {}, page.cause)

Reached(address) == address \in site.reach

Init ==
    /\ EnvInit
    /\ site \in Sites
    /\ page = Page("closed", None, {}, "none")
    /\ faults = 0

-------------------------------------------------------------------------------
(* The request for the page. *)

Open ==
    /\ page.pc \in {"closed"} \cup Settled
    /\ Begin(Server)
    /\ page' = Page("asking", None, {}, "none")
    /\ UNCHANGED <<site, faults>>

(* Variant, not the code: there is no fallback. *)
BareBaseUrl(m) == m

(* TwigResponse::render: baseurl is APP_BASE_URL, or the origin the request *)
(* came with, which knows of no base path and of no proxy in front.         *)
BaseUrl(m) == IF m = Unset THEN <<site.sees, Root>> ELSE m

WhyBroken(p) ==
    LET meant == during[p] \ {Fail, Locked} IN
    IF Locked \in during[p] THEN "locked"
    ELSE IF \E m \in meant : ~Reached(BaseUrl(m)) THEN "config"
    ELSE IF load[p].entry # None /\ Excused(load[p].entry) THEN "stale"
    ELSE "none"

Render ==
    /\ page.pc = "asking" /\ In(Server, "ready")
    /\ page' = Page("linked", BaseUrl(Loaded(Server)), {}, WhyBroken(Server))
    /\ Finish(Server)
    /\ UNCHANGED <<site, faults>>

(* The bootstrap threw: there is no page. *)
Refuse ==
    /\ page.pc = "asking" /\ In(Server, "failed")
    /\ Showing("error")
    /\ Finish(Server)
    /\ UNCHANGED <<site, faults>>

(* A process dies, the page's or another. *)
Kill(p) ==
    /\ faults < MaxFaults
    /\ faults' = faults + 1
    /\ Die(p)
    /\ IF p = Server /\ page.pc = "asking" THEN Showing("error") ELSE UNCHANGED page
    /\ UNCHANGED site

(* Another request runs its bootstrap. *)
Visit(p) ==
    /\ p # Server
    /\ Begin(p)
    /\ UNCHANGED <<site, page, faults>>

Leave(p) ==
    /\ p # Server
    /\ Finish(p)
    /\ UNCHANGED <<site, page, faults>>

Boot(p) == Bootstrap(p) /\ UNCHANGED <<site, page, faults>>

-------------------------------------------------------------------------------
(* The browser. *)

(* The page's three scripts come from below the base address; a lost fetch *)
(* leaves its script out.                                                  *)
LoadScripts ==
    /\ page.pc = "linked"
    /\ page' = Page("loaded", None, IF Reached(page.base) THEN Script ELSE {}, page.cause)
    /\ UNCHANGED <<envVars, site, faults>>

LoseScript(s) ==
    /\ page.pc = "loaded" /\ s \in page.scripts
    /\ faults < MaxFaults
    /\ faults' = faults + 1
    /\ page' = Page("loaded", None, page.scripts \ {s}, "lost")
    /\ UNCHANGED <<envVars, site>>

(* window.onload: nobody set it if the initializer is missing, and it stops *)
(* at a ReferenceError if SwaggerUIBundle or SwaggerUIStandalonePreset is.  *)
OnLoad ==
    /\ page.pc = "loaded"
    /\ Showing(IF page.scripts = Script THEN "fetching" ELSE "blank")
    /\ UNCHANGED <<envVars, site, faults>>

(* Variant, not the code: the specification is asked of the server's origin. *)
SpecAddressOfServer == <<site.sees, Root>>

(* base_url + "/openapi.yaml", with the origin of the page for base_url. *)
SpecAddress == <<site.page[1], Root>>

FetchSpec ==
    /\ page.pc = "fetching"
    /\ Showing(IF Reached(SpecAddress) THEN "shown" ELSE "nospec")
    /\ UNCHANGED <<envVars, site, faults>>

LoseSpec ==
    /\ page.pc = "fetching"
    /\ faults < MaxFaults
    /\ faults' = faults + 1
    /\ page' = Page("nospec", None, {}, "lost")
    /\ UNCHANGED <<envVars, site>>

Browse == LoadScripts \/ OnLoad \/ FetchSpec

-------------------------------------------------------------------------------
Change(file) == Edit(file) /\ UNCHANGED <<site, page, faults>>
Wait == Second /\ UNCHANGED <<site, page, faults>>

Next ==
    \/ Open \/ Render \/ Refuse
    \/ \E p \in Proc : Visit(p) \/ Boot(p) \/ Leave(p) \/ Kill(p)
    \/ Browse
    \/ (\E s \in Script : LoseScript(s)) \/ LoseSpec
    \/ \E file \in File : Change(file)
    \/ Wait

(* A process that runs keeps running, and so does a browser; nobody has to *)
(* open a page, to edit .env or to see a fault.                            *)
Spec ==
    /\ Init /\ [][Next]_vars
    /\ WF_vars(Boot(Server) \/ Render \/ Refuse)
    /\ WF_vars(Browse)

-------------------------------------------------------------------------------
(* Properties. *)

TypeOK ==
    /\ EnvTypeOK
    /\ site \in Sites
    /\ page \in [pc : PagePC, base : (Origin \X Path) \cup {None},
                 scripts : SUBSET Script, cause : Cause]
    /\ faults \in 0 .. MaxFaults

(* A page stays blank only if something was lost, .env was closed, what .env *)
(* meant while the request ran did not lead to this site, or the copy was    *)
(* mistaken for it; and a page that ran its scripts shows the specification  *)
(* where the root of its origin serves it, and on a site without a base path *)
(* always, unless the fetch was lost.                                        *)
BrokenPageHasACause ==
    /\ page.pc = "blank" => page.cause # "none"
    /\ page.pc = "nospec" => page.cause = "lost" \/ site.page[2] # Root
    /\ page.pc = "shown" => Reached(<<site.page[1], Root>>)

(* .env leads to this site, nothing stale hides it, the site has no base path. *)
Configured ==
    /\ Readable(env) /\ Reached(BaseUrl(Meaning[env.text]))
    /\ cache # None => (cache.stamp = StampOf(env) => cache.text = env.text)
    /\ site.page[2] = Root

(* docs/development.md: the parsed values are "refreshed when `.env` changes".*)
(* Once .env stays put and leads to the site, users who keep opening the     *)
(* page get to see the specification, whatever the copy held before.         *)
ConfiguredPageShows ==
    <>[]Configured /\ []<>(page.pc = "asking") => []<>(page.pc = "shown")
==============================================================================
