-------------------------------- MODULE Deploy --------------------------------
(***************************************************************************)
(* How a commit on main reaches the containers: runs of the two workflows  *)
(* (.github/workflows/build-and-deploy.yml, deploy.yml) and of             *)
(* webhook-deploy.sh over one checkout on the host, where nothing keeps    *)
(* them apart.  The compose file builds the gateway from the checkout; the *)
(* rest of the stack is configured by the checkout.                        *)
(*                                                                         *)
(* Commits are numbered in the order of main, which is never rewritten.    *)
(***************************************************************************)
EXTENDS Integers

CONSTANTS
  Runs,     \* runs of a deployer, each made once
  Of,       \* what a run does: "build" (deploy.yml, the script) or "pull"
  After,    \* the commit whose push starts it
  MaxPush,  \* bound on the commits
  Faults    \* whether commands fail and runs are interrupted

ASSUME RunAssumption  == Of \in [Runs -> {"build", "pull"}] /\ After \in [Runs -> Nat]
ASSUME PushAssumption == MaxPush \in Nat /\ Faults \in BOOLEAN

VARIABLES
  pushed,    \* main on GitHub
  origin,    \* origin/main in the checkout
  head,      \* HEAD and the files of the checkout
  image,     \* the commit the gateway's image was built from
  config,    \* the commit whose compose file the containers run with
  gateway,   \* the commit of the gateway that runs
  pc,        \* where each run is, and how it ended
  target,    \* NEW_COMMIT of each run
  building,  \* the commit whose files its build has read
  reading    \* what its start under way has read: the commit of the compose
             \* file, and those the name of the image has meant since

\* History: what may have gone wrong and has not been made good since.
VARIABLES
  cut,       \* since the last start, alone in what it read, of what is there now:
             \* a run was cut off after its reset, a start failed, or two
             \* overlapped that had read different things
  lost,      \* since the last build of the checkout: a build was left out or
             \* failed ("build"), or an older one took the name ("order")
  overlaps,  \* starts under way that overlapped one that had read otherwise
  misled     \* starts under way during which an older build had the name

host    == <<image, config, gateway>>
history == <<cut, lost, overlaps, misled>>
vars == <<pushed, origin, head, host, pc, target, building, reading, history>>

\* "current" is a run that found nothing to do.
Ends  == {"current", "completed", "failed"}
Past  == {"reset", "building", "built", "starting"}
Stage == {"waiting", "fetched", "stale"} \cup Past \cup Ends

TypeOK ==
  /\ pushed \in 0..MaxPush
  /\ origin \in 0..pushed
  /\ head \in 0..origin
  /\ image \in 0..head
  /\ config \in 0..head
  /\ gateway \in 0..head
  /\ pc \in [Runs -> Stage]
  /\ target \in [Runs -> 0..origin]
  /\ building \in [Runs -> 0..head]
  /\ reading \in [Runs -> [config : 0..head, images : SUBSET (0..head)]]
  /\ cut \in BOOLEAN /\ lost \subseteq {"build", "order"}
  /\ overlaps \subseteq Runs /\ misled \subseteq Runs

NotRead  == [config |-> 0, images |-> {}]
Starting == {r \in Runs : pc[r] = "starting"}

\* An installation that works.
Init ==
  /\ pushed = 0 /\ origin = 0 /\ head = 0
  /\ image = 0 /\ config = 0 /\ gateway = 0
  /\ pc = [r \in Runs |-> "waiting"]
  /\ target = [r \in Runs |-> 0]
  /\ building = [r \in Runs |-> 0]
  /\ reading = [r \in Runs |-> NotRead]
  /\ cut = FALSE /\ lost = {} /\ overlaps = {} /\ misled = {}
-----------------------------------------------------------------------------
Push ==
  /\ pushed < MaxPush
  /\ pushed' = pushed + 1
  /\ UNCHANGED <<origin, head, host, pc, target, building, reading, history>>

Goto(r, s) == pc' = [pc EXCEPT ![r] = s]

\* A faulty Fetch: it goes on when the network does not.
FetchMaybe(r) ==
  /\ pc[r] = "waiting" /\ After[r] <= pushed
  /\ origin' \in {origin, pushed}
  /\ Goto(r, "fetched")
  /\ UNCHANGED <<pushed, head, host, target, building, reading, history>>

Fetch(r) ==
  /\ pc[r] = "waiting" /\ After[r] <= pushed
  /\ origin' = pushed
  /\ Goto(r, "fetched")
  /\ UNCHANGED <<pushed, head, host, target, building, reading, history>>

Compare(r) ==
  /\ pc[r] = "fetched"
  /\ target' = [target EXCEPT ![r] = origin]
  /\ Goto(r, IF head = origin THEN "current" ELSE "stale")
  /\ UNCHANGED <<pushed, origin, head, host, building, reading, history>>

\* A faulty Reset: to the commit that was compared.
ResetTarget(r) ==
  /\ pc[r] = "stale"
  /\ head' = target[r]
  /\ Goto(r, "reset")
  /\ UNCHANGED <<pushed, origin, host, target, building, reading, history>>

\* Stash, checkout, and reset --hard to what origin/main is by now.
Reset(r) ==
  /\ pc[r] = "stale"
  /\ head' = origin
  /\ Goto(r, "reset")
  /\ UNCHANGED <<pushed, origin, host, target, building, reading, history>>

\* A faulty BuildBegin: of the commit that was compared.
BuildBeginTarget(r) ==
  /\ pc[r] = "reset" /\ Of[r] = "build"
  /\ building' = [building EXCEPT ![r] = target[r]]
  /\ Goto(r, "building")
  /\ UNCHANGED <<pushed, origin, head, host, target, reading, history>>

\* docker compose build: the files are read, and some time later the image is
\* there and takes the name.
BuildBegin(r) ==
  /\ pc[r] = "reset" /\ Of[r] = "build"
  /\ building' = [building EXCEPT ![r] = head]
  /\ Goto(r, "building")
  /\ UNCHANGED <<pushed, origin, head, host, target, reading, history>>

BuildEnd(r) ==
  /\ pc[r] = "building"
  /\ image' = building[r]
  /\ lost' = IF building[r] = head THEN {}
             ELSE lost \cup IF building[r] < image THEN {"order"} ELSE {}
  /\ reading' = [q \in Runs |-> IF q \in Starting
                                THEN [reading[q] EXCEPT !.images = @ \cup {building[r]}]
                                ELSE reading[q]]
  /\ overlaps' = IF building[r] # image /\ \E p, q \in Starting : p # q
                 THEN overlaps \cup Starting ELSE overlaps
  /\ misled' = IF "order" \in lost' THEN misled \cup Starting ELSE misled
  /\ Goto(r, "built")
  /\ UNCHANGED <<pushed, origin, head, config, gateway, target, building, cut>>

\* A build that was due is left out.
Unbuilt == lost \cup IF image < head THEN {"build"} ELSE {}

\* The status of the build is lost in the pipe to grep.
BuildFails(r) ==
  /\ Faults
  /\ pc[r] = "building"
  /\ lost' = Unbuilt
  /\ Goto(r, "built")
  /\ UNCHANGED <<pushed, origin, head, host, target, building, reading, cut,
                 overlaps, misled>>

\* docker pull fetches an image of the gateway that the compose file does not
\* name, and docker compose pull skips a service that is built.
Pull(r) ==
  /\ pc[r] = "reset" /\ Of[r] = "pull"
  /\ lost' = Unbuilt
  /\ Goto(r, "built")
  /\ UNCHANGED <<pushed, origin, head, host, target, building, reading, cut, overlaps, misled>>

\* docker compose up -d: the compose file is read, then missing images are
\* pulled, containers created from what the name of the image means by then, and
\* started; the status of all this is lost as well.  Another run may do the same.
Current == [config |-> head, images |-> {image}]

UpBegin(r) ==
  /\ pc[r] = "built"
  /\ reading' = [reading EXCEPT ![r] = Current]
  /\ overlaps' = IF \A q \in Starting : reading[q] = Current THEN overlaps
                 ELSE overlaps \cup Starting \cup {r}
  /\ misled' = IF "order" \in lost THEN misled \cup {r} ELSE misled
  /\ Goto(r, "starting")
  /\ UNCHANGED <<pushed, origin, head, host, target, building, cut, lost>>

\* The start of r is over, in one way or another.
EndStart(r, s) ==
  /\ reading' = [reading EXCEPT ![r] = NotRead]
  /\ overlaps' = overlaps \ {r}
  /\ misled' = misled \ {r}
  /\ Goto(r, s)

\* A faulty UpEnd: each run starts the image it has built itself.
UpEndOwnBuild(r) ==
  /\ pc[r] = "starting"
  /\ config' = reading[r].config
  /\ gateway' \in IF Of[r] = "build" THEN {building[r]} ELSE reading[r].images
  /\ cut' = (r \in overlaps \/ (cut /\ reading[r] # Current))
  /\ EndStart(r, "completed")
  /\ UNCHANGED <<pushed, origin, head, image, target, building, lost>>

\* A gateway that runs one of these images already may be left alone.
UpEnd(r) ==
  /\ pc[r] = "starting"
  /\ config' = reading[r].config
  /\ gateway' \in reading[r].images
  /\ cut' = (r \in overlaps \/ (cut /\ reading[r] # Current))
  /\ EndStart(r, "completed")
  /\ UNCHANGED <<pushed, origin, head, image, target, building, lost>>

\* The start fails, which the run does not notice, or the run is interrupted in
\* it; some of it may have happened.
UpFails(r) ==
  /\ Faults
  /\ pc[r] = "starting"
  /\ config' \in {config, reading[r].config}
  /\ gateway' \in {gateway} \cup reading[r].images
  /\ cut' = TRUE
  /\ \E s \in {"completed", "failed"} : EndStart(r, s)
  /\ UNCHANGED <<pushed, origin, head, image, target, building, lost>>

\* A git command fails (set -e), or the run is interrupted before its start.
Fail(r) ==
  /\ Faults
  /\ pc[r] \notin Ends \cup {"starting"}
  /\ cut' = (cut \/ pc[r] \in Past)
  /\ lost' = IF pc[r] \in {"reset", "building"} THEN Unbuilt ELSE lost
  /\ Goto(r, "failed")
  /\ UNCHANGED <<pushed, origin, head, host, target, building, reading, overlaps, misled>>

Next ==
  \/ Push
  \/ \E r \in Runs : \/ Fetch(r)
                     \/ Compare(r)
                     \/ Reset(r)
                     \/ BuildBegin(r)
                     \/ BuildEnd(r)
                     \/ BuildFails(r)
                     \/ Pull(r)
                     \/ UpBegin(r)
                     \/ UpEnd(r)
                     \/ UpFails(r)
                     \/ Fail(r)

Spec == Init /\ [][Next]_vars
-----------------------------------------------------------------------------
\* The start of r ends in this step.
StartEnds(r) == pc[r] = "starting" /\ pc'[r] # "starting"

\* The checkout never goes back, however the runs overlap.  The configuration of
\* the containers goes back only by a start that overlapped one that had read
\* another version: the older may end last.  The gateway goes back only by such
\* a start, or by one during which an older build had taken the image's name; no
\* longer once the checkout has been built again and is started after that.
NeverBack ==
  [][/\ head' >= head
     /\ config' < config => \E r \in overlaps : StartEnds(r)
     /\ gateway' < gateway => \E r \in overlaps \cup misled : StartEnds(r)]_vars

\* A run that reports "Already up to date", or completes, has brought the checkout
\* to the push that started it or found it there.
EndMeansPushed ==
  \A r \in Runs : pc[r] \in {"current", "completed"} => head >= After[r]

\* Whenever no run is between its reset and its end, the containers run what is
\* checked out: the configuration, unless a run was cut off after its reset, a
\* start failed, or two starts overlapped that had read different things; and
\* then the gateway too, unless a build was left out, failed or was overtaken.
\* A later run makes up for each of these, and for what fails earlier.  Starts
\* may well overlap that read the same, as those of one push do.
Delivered ==
  ~cut /\ (\A r \in Runs : pc[r] \notin Past) =>
    /\ config = head
    /\ lost = {} => gateway = head

\* WEBHOOK_SETUP.md:57, when main is pushed, "Updated containers start
\* automatically": once every run has ended, what was pushed is running.
SettledCurrent ==
  (\A r \in Runs : pc[r] \in Ends) => gateway = pushed /\ config = pushed
=============================================================================
