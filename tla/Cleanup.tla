-------------------------------- MODULE Cleanup --------------------------------
(***************************************************************************)
(* The nightly job of cmd/cleanup/main.go, which deletes the droplets and  *)
(* firewalls that runs have left behind, while other runs, their users and *)
(* the other tenants of the account go on.                                 *)
(*                                                                         *)
(* The job has no lock and no view of the runs.  It lists all droplets     *)
(* once to find the runs to spare, lists them again to delete those of the *)
(* other runs, and lists the firewalls to do the same.  Each listing is    *)
(* read page by page, and the account may change between any two calls.    *)
(***************************************************************************)
EXTENDS Naturals, Sequences, FiniteSets, SequencesExt

CONSTANTS
    Runs,       \* runs; each has its own prefix "petri-ib-XXXXXX"
    Foreign,    \* other tenants, whose resources have no "petri" prefix
    Nodes,      \* the tasks of a run
    PerPage,    \* the page size of the listings
    DryRun      \* the --dry-run flag

ASSUME OwnersAssumption ==
    /\ Runs \cap Foreign = {} /\ IsFiniteSet(Foreign)
    /\ "firewall" \notin Nodes /\ Nodes # {}
ASSUME PageAssumption == PerPage \in Nat \ {0}
ASSUME DryRunAssumption == DryRun \in BOOLEAN

\* A droplet is named after its owner and its task, a firewall after its owner.
Droplets == (Runs \cup Foreign) \X Nodes
Firewalls == (Runs \cup Foreign) \X {"firewall"}

\* extractPrefix: the owner that a name begins with.
extractPrefix(x) == x[1]

VARIABLES
    droplets,   \* the account's droplets, in the order the API lists them
    firewalls,  \* the account's firewalls, in that order
    age,        \* whether a droplet is younger than 30 minutes, as its creation time tells
    pinned,     \* droplets tagged LONG_RUNNING
    status,     \* what the workflow of a run is doing
    pc,         \* where the cleanup job is
    page,       \* how many pages of the current listing have been read
    listed,     \* what those pages held
    skipped,    \* skippedPrefixes
    todo,       \* what is still to be deleted in this phase
    atStart     \* history: the droplets when the job began, and the tagged ones

account == <<droplets, firewalls, age, pinned, status>>
job == <<pc, page, listed, skipped, todo>>
vars == <<account, job, atStart>>

Init ==
    /\ droplets = SetToSeq(Foreign \X {CHOOSE n \in Nodes : TRUE})
    /\ firewalls = SetToSeq(Foreign \X {"firewall"})
    /\ age = [d \in Droplets |-> IF extractPrefix(d) \in Foreign THEN "old" ELSE "none"]
    /\ pinned = {}
    /\ status = [r \in Runs |-> "none"]
    /\ pc = "idle"
    /\ page = 0
    /\ listed = {}
    /\ skipped = {}
    /\ todo = {}
    /\ atStart = [droplets |-> {}, pinned |-> {}]

-------------------------------------------------------------------------------
(* Runs, users and time *)

\* The API lists a new resource first or last.
Added(seq, x) == {Append(seq, x), <<x>> \o seq}

\* The rest of a listing, in its order, when some of its resources are gone.
Without(seq, gone) ==
    LET rest[i \in 0 .. Len(seq)] ==
          IF i = 0 THEN <<>>
          ELSE IF seq[i] \in gone THEN rest[i - 1] ELSE Append(rest[i - 1], seq[i])
    IN  rest[Len(seq)]

\* CreateProvider: the firewall of the run.
CreateProvider(r) ==
    /\ status[r] = "none"
    /\ status' = [status EXCEPT ![r] = "live"]
    /\ firewalls' \in Added(firewalls, <<r, "firewall">>)
    /\ UNCHANGED <<droplets, age, pinned, job, atStart>>

\* CreateDroplet, tagged with the run only.  A body that the workflow has given up on
\* may still be creating droplets when the run is closed.  The creation time the API gives
\* may be one the job cannot parse: then it never learns the droplet's age.
CreateDroplet(r, n) ==
    /\ status[r] # "none"
    /\ age[<<r, n>>] = "none"
    /\ \E a \in {"recent", "unknown"} : age' = [age EXCEPT ![<<r, n>>] = a]
    /\ droplets' \in Added(droplets, <<r, n>>)
    /\ UNCHANGED <<firewalls, pinned, status, job, atStart>>

\* Teardown: the droplets with the run's tag, then its firewall if it is still there.
teardownTasks(r) ==
    /\ status[r] = "live"
    /\ status' = [status EXCEPT ![r] = "teardown"]
    /\ droplets' = Without(droplets, {r} \X Nodes)
    /\ UNCHANGED <<firewalls, age, pinned, job, atStart>>

teardownFirewall(r) ==
    /\ status[r] = "teardown"
    /\ status' = [status EXCEPT ![r] = "closed"]
    /\ firewalls' = Without(firewalls, {<<r, "firewall">>})
    /\ UNCHANGED <<droplets, age, pinned, job, atStart>>

\* The workflow closes and leaves its resources: the teardown failed or never ran.
Leak(r) ==
    /\ status[r] \in {"live", "teardown"}
    /\ status' = [status EXCEPT ![r] = "closed"]
    /\ UNCHANGED <<droplets, firewalls, age, pinned, job, atStart>>

\* A user tags a droplet LONG_RUNNING by hand; nothing in the repository does.
Pin(d) ==
    /\ d \in ToSet(droplets) \ pinned
    /\ extractPrefix(d) \in Runs
    /\ pinned' = pinned \cup {d}
    /\ UNCHANGED <<droplets, firewalls, age, status, job, atStart>>

\* Another tenant deletes a droplet.
ForeignDelete(d) ==
    /\ d \in ToSet(droplets)
    /\ extractPrefix(d) \in Foreign
    /\ droplets' = Without(droplets, {d})
    /\ UNCHANGED <<firewalls, age, pinned, status, job, atStart>>

\* A droplet turns 30 minutes old.
Age(d) ==
    /\ age[d] = "recent"
    /\ age' = [age EXCEPT ![d] = "old"]
    /\ UNCHANGED <<droplets, firewalls, pinned, status, job, atStart>>

-------------------------------------------------------------------------------
(* The cleanup job *)

StartCleanup ==
    /\ pc = "idle"
    /\ pc' = "listSkipped"
    /\ atStart' = [droplets |-> ToSet(droplets), pinned |-> pinned \cap ToSet(droplets)]
    /\ UNCHANGED <<account, page, listed, skipped, todo>>

\* The next page of a listing; a page that is not full is the last one.
Page(seq) ==
    LET end == (page + 1) * PerPage
    IN  SubSeq(seq, page * PerPage + 1, IF end > Len(seq) THEN Len(seq) ELSE end)

LastPage(seq) == Len(Page(seq)) < PerPage

\* What has been listed with that page, each element with the tag it had when read.
Listing(seq) == listed \cup {[name |-> x, pinned |-> x \in pinned] : x \in ToSet(Page(seq))}

ReadPage(seq) ==
    /\ ~LastPage(seq)
    /\ page' = page + 1
    /\ listed' = Listing(seq)
    /\ UNCHANGED <<pc, skipped, todo>>

EndListing(seq, next) ==
    /\ LastPage(seq)
    /\ pc' = next
    /\ page' = 0
    /\ listed' = {}

\* Mutant: the LONG_RUNNING tag is not looked at.
SparesIgnoringTag(d) == age[d.name] \in {"recent", "unknown"}

\* Mutant: a creation time that cannot be parsed counts as old.
SparesIgnoringDate(d) == d.pinned \/ age[d.name] = "recent"

\* A droplet that spares its whole run: it has the LONG_RUNNING tag, its creation time
\* cannot be parsed, or it is younger than 30 minutes now that the listing is complete.
Spares(d) == d.pinned \/ age[d.name] \in {"recent", "unknown"}

getSkippedDropletPrefixes ==
    /\ pc = "listSkipped"
    /\ \/ ReadPage(droplets)
       \/ /\ EndListing(droplets, "listDroplets")
          /\ skipped' = {r \in Runs : \E d \in Listing(droplets) :
                                         extractPrefix(d.name) = r /\ Spares(d)}
          /\ UNCHANGED todo
    /\ UNCHANGED <<account, atStart>>

\* Mutant: names without the "petri" prefix are not left out.
CandidatesOfAnyName(seq) ==
    {x \in {y.name : y \in Listing(seq)} : ~DryRun /\ extractPrefix(x) \notin skipped}

\* The listed resources to delete: of a run, and not of a skipped one.
Candidates(seq) ==
    {x \in {y.name : y \in Listing(seq)} : ~DryRun /\ extractPrefix(x) \in Runs \ skipped}

ListDroplets ==
    /\ pc = "listDroplets"
    /\ \/ ReadPage(droplets)
       \/ /\ EndListing(droplets, "deleteDroplets")
          /\ todo' = Candidates(droplets)
          /\ UNCHANGED skipped
    /\ UNCHANGED <<account, atStart>>

ListFirewalls ==
    /\ pc = "listFirewalls"
    /\ \/ ReadPage(firewalls)
       \/ /\ EndListing(firewalls, "deleteFirewalls")
          /\ todo' = Candidates(firewalls)
          /\ UNCHANGED skipped
    /\ UNCHANGED <<account, atStart>>

DeleteDroplet(d) ==
    /\ pc = "deleteDroplets"
    /\ d \in todo \cap ToSet(droplets)
    /\ droplets' = Without(droplets, {d})
    /\ todo' = todo \ {d}
    /\ UNCHANGED <<firewalls, age, pinned, status, pc, page, listed, skipped, atStart>>

DeleteFirewall(f) ==
    /\ pc = "deleteFirewalls"
    /\ f \in todo \cap ToSet(firewalls)
    /\ firewalls' = Without(firewalls, {f})
    /\ todo' = todo \ {f}
    /\ UNCHANGED <<droplets, age, pinned, status, pc, page, listed, skipped, atStart>>

\* The API refuses, or the resource is gone: logged, and the loop goes on.
DeleteFails(x) ==
    /\ x \in todo
    /\ todo' = todo \ {x}
    /\ UNCHANGED <<account, pc, page, listed, skipped, atStart>>

\* Mutant: cleanupFirewalls is never called.
EndAfterDroplets ==
    /\ pc \in {"deleteDroplets", "deleteFirewalls"}
    /\ todo = {}
    /\ pc' = "idle"
    /\ skipped' = {}
    /\ atStart' = [droplets |-> {}, pinned |-> {}]
    /\ UNCHANGED <<account, page, listed, todo>>

\* A delete loop is through: the firewalls follow the droplets, then the job is done.
EndOfLoop ==
    /\ todo = {}
    /\ \/ /\ pc = "deleteDroplets"
          /\ pc' = "listFirewalls"
          /\ UNCHANGED <<skipped, atStart>>
       \/ /\ pc = "deleteFirewalls"
          /\ pc' = "idle"
          /\ skipped' = {}
          /\ atStart' = [droplets |-> {}, pinned |-> {}]
    /\ UNCHANGED <<account, page, listed, todo>>

\* A listing failed and the process exits, or its pod is killed at any point.
Fatal ==
    /\ pc # "idle"
    /\ pc' = "idle"
    /\ page' = 0
    /\ listed' = {}
    /\ skipped' = {}
    /\ todo' = {}
    /\ atStart' = [droplets |-> {}, pinned |-> {}]
    /\ UNCHANGED account

Job ==
    \/ StartCleanup \/ getSkippedDropletPrefixes \/ ListDroplets \/ ListFirewalls
    \/ \E d \in Droplets : DeleteDroplet(d)
    \/ \E f \in Firewalls : DeleteFirewall(f)
    \/ \E x \in todo : DeleteFails(x)
    \/ EndOfLoop

Others ==
    \/ \E r \in Runs : \/ CreateProvider(r) \/ teardownTasks(r) \/ teardownFirewall(r) \/ Leak(r)
                       \/ \E n \in Nodes : CreateDroplet(r, n)
    \/ \E d \in Droplets : Pin(d) \/ ForeignDelete(d) \/ Age(d)

Next == Job \/ Fatal \/ Others

Spec == Init /\ [][Next]_vars

\* The job is scheduled again and again and its process goes on; time passes; failures
\* do not go on forever: a deletion tried again and again succeeds one night, and at some
\* point no pass is cut short any more.
Fairness ==
    /\ WF_vars(Job)
    /\ \A d \in Runs \X Nodes : WF_vars(Age(d)) /\ SF_vars(DeleteDroplet(d))
    /\ \A r \in Runs : SF_vars(DeleteFirewall(<<r, "firewall">>))
    /\ <>[][Fatal => EndOfLoop]_vars

FairSpec == Spec /\ Fairness

-------------------------------------------------------------------------------
(* Properties *)

\* Every variable keeps its type; the job never marks a resource of another tenant.
TypeOK ==
    /\ droplets \in Seq(Droplets)
    /\ firewalls \in Seq(Firewalls)
    /\ age \in [Droplets -> {"none", "recent", "unknown", "old"}]
    /\ pinned \subseteq Runs \X Nodes
    /\ status \in [Runs -> {"none", "live", "teardown", "closed"}]
    /\ pc \in {"idle", "listSkipped", "listDroplets", "deleteDroplets", "listFirewalls",
               "deleteFirewalls"}
    /\ page \in Nat
    /\ listed \subseteq [name : Droplets \cup Firewalls, pinned : BOOLEAN]
    /\ skipped \subseteq Runs
    /\ todo \subseteq Runs \X (Nodes \cup {"firewall"})
    /\ atStart \in [droplets : SUBSET Droplets, pinned : SUBSET Droplets]

\* The runs that have a resource the job is about to delete.
Condemned == {extractPrefix(x) : x \in todo}

\* When every listing fits a page, a run with a droplet that was tagged LONG_RUNNING
\* before the job began loses nothing to it while that droplet exists.
LongRunningKept ==
    \A d \in atStart.pinned \cap ToSet(droplets) : extractPrefix(d) \notin Condemned

\* Likewise a run with a droplet that existed when the job began and that is not known
\* to be 30 minutes old: younger, or of unknown age.
RecentRunsKept ==
    \A d \in atStart.droplets \cap ToSet(droplets) :
        age[d] \in {"recent", "unknown"} => extractPrefix(d) \notin Condemned

\* What a run leaves behind when it closes is collected some night, unless a user tags one
\* of its droplets or one of them has no age.
LeaksCollected ==
    \A r \in Runs :
        status[r] = "closed"
            ~> \/ r \notin {extractPrefix(x) : x \in ToSet(firewalls) \cup ToSet(droplets)}
               \/ \E d \in Droplets : /\ extractPrefix(d) = r
                                      /\ d \in pinned \/ age[d] = "unknown"

\* README: "Droplets older than 30 minutes".
OnlyOldDropletsDeleted ==
    \A d \in todo \cap ToSet(droplets) : age[d] = "old"

===============================================================================
