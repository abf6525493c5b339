--------------------------- MODULE ServiceWorker ---------------------------
(***************************************************************************)
(* client/lib/serviceworker/grits-serviceworker.js, _updateServiceWorker-  *)
(* Hash of GritsClient.js, and the interstitial page of                    *)
(* internal/gritsd/module_serviceworker.go: how a tab's navigation is      *)
(* answered by a worker, and how a worker whose hash is not the server's   *)
(* any more replaces itself.                                               *)
(***************************************************************************)
EXTENDS Integers

CONSTANTS
  Tab,
  MaxHash       \* the bound on the versions of the worker's directory

VARIABLES
  serverHash,   \* the version the server has
  worker,       \* the registration: its version, 0 without one, and its state
  loading,      \* the cookie grits-sw-loading
  bypass,       \* the cookie grits-sw-bypass
  tab,          \* what each tab does
  since         \* history: serverHash when the tab's navigation began, 0 when the
                \* worker could not ask

swVars == <<serverHash, worker, loading, bypass, tab, since>>

NoWorker == [hash |-> 0, state |-> "none"]
Controls == worker.state = "activated"    \* and not "leaving": _unregistering
Blank == [stage |-> "idle", by |-> 0, attempted |-> FALSE]
At(t, stage) == tab' = [tab EXCEPT ![t].stage = stage]

Init ==
  /\ serverHash = 1
  /\ worker = NoWorker
  /\ loading = FALSE /\ bypass = FALSE
  /\ tab = [t \in Tab |-> Blank]
  /\ since = [t \in Tab |-> 0]
-----------------------------------------------------------------------------
(* A navigation goes to the worker, unless it is about to unregister;      *)
(* otherwise the server answers, with the page when one of its cookies is  *)
(* there and with the interstitial when not.                               *)
Direct(t) ==
  IF bypass \/ loading
  THEN /\ tab' = [tab EXCEPT ![t] = [Blank EXCEPT !.stage = "shown"]]
       /\ UNCHANGED loading
  ELSE /\ tab' = [tab EXCEPT ![t] = [Blank EXCEPT !.stage = "interstitial"]]
       /\ loading' = TRUE

GoTo(t) ==
  /\ since' = [since EXCEPT ![t] = serverHash]
  /\ IF Controls
     THEN /\ tab' = [tab EXCEPT ![t] = [Blank EXCEPT !.stage = "checking", !.by = worker.hash]]
          /\ UNCHANGED loading
     ELSE Direct(t)

Navigate(t) ==
  /\ tab[t].stage \in {"idle", "shown"}
  /\ GoTo(t)
  /\ UNCHANGED <<serverHash, worker, bypass>>

(* handleRequest of a navigation: the hash check, which does not count     *)
(* when it fails.                                                          *)
MatchesNewer(hash) == serverHash >= hash
MatchesNever(hash) == FALSE
Matches(hash) == serverHash = hash
HashCheck(t) ==
  /\ tab[t].stage = "checking"
  /\ IF Matches(tab[t].by)
     THEN At(t, "lookup") /\ UNCHANGED worker
     ELSE /\ At(t, "redirected")
          /\ worker' = IF worker.hash = tab[t].by /\ worker.state = "activated"
                       THEN [worker EXCEPT !.state = "leaving"] ELSE worker
  /\ UNCHANGED <<serverHash, loading, bypass, since>>

HashCheckFails(t) ==
  /\ tab[t].stage = "checking"
  /\ At(t, "lookup")
  /\ since' = [since EXCEPT ![t] = 0]
  /\ UNCHANGED <<serverHash, worker, loading, bypass>>

(* The rest of handleRequest: the page, or the text of an error.           *)
Serve(t) ==
  /\ tab[t].stage = "lookup"
  /\ At(t, "shown")
  /\ UNCHANGED <<serverHash, worker, loading, bypass, since>>

(* registration.unregister() comes to its end.                             *)
Unregistered ==
  /\ worker.state = "leaving"
  /\ worker' = NoWorker
  /\ UNCHANGED <<serverHash, loading, bypass, tab, since>>

(* The tabs that are told to delete the cookie do so; the redirect leads   *)
(* to the interstitial, which sets it.                                     *)
Redirected(t) ==
  /\ tab[t].stage = "redirected"
  /\ At(t, "interstitial")
  /\ loading' = TRUE
  /\ UNCHANGED <<serverHash, worker, bypass, since>>

DeleteCooldown ==
  /\ loading /\ \E t \in Tab : tab[t].stage = "redirected"
  /\ loading' = FALSE
  /\ UNCHANGED <<serverHash, worker, bypass, tab, since>>
-----------------------------------------------------------------------------
(* The interstitial: every registration goes, those that wait for one of   *)
(* them to become active wait in vain; then a new one is made.             *)
CleanedUp(t) ==
  /\ worker' = NoWorker
  /\ tab' = [u \in Tab |->
               IF u = t THEN [tab[u] EXCEPT !.stage = "registering"]
               ELSE IF tab[u].stage = "waiting" THEN [tab[u] EXCEPT !.stage = "vain"] ELSE tab[u]]
CleanUp(t) ==
  /\ tab[t].stage = "interstitial"
  /\ CleanedUp(t)
  /\ UNCHANGED <<serverHash, loading, bypass, since>>

(* register() makes a worker, or gives the one that is there, whatever its *)
(* version; when that one is active already no event will follow.          *)
Registered == IF worker.state = "none" THEN [hash |-> serverHash, state |-> "installing"] ELSE worker
Register(t) ==
  /\ tab[t].stage = "registering"
  /\ worker' = Registered
  /\ loading' = FALSE
  /\ At(t, IF worker.state \in {"none", "installing"} THEN "waiting" ELSE "vain")
  /\ UNCHANGED <<serverHash, bypass, since>>

(* No service workers in this browser, or the script cannot be had.        *)
RegisterFails(t) ==
  /\ tab[t].stage \in {"interstitial", "registering"}
  /\ bypass' = TRUE /\ loading' = FALSE
  /\ At(t, "bouncing")
  /\ UNCHANGED <<serverHash, worker, since>>

(* skipWaiting; whoever waited goes on to its page.                        *)
Activate ==
  /\ worker.state = "installing"
  /\ worker' = [worker EXCEPT !.state = "activated"]
  /\ tab' = [t \in Tab |-> IF tab[t].stage = "waiting" THEN [tab[t] EXCEPT !.stage = "bouncing"]
                           ELSE tab[t]]
  /\ UNCHANGED <<serverHash, loading, bypass, since>>

(* window.location.replace(target)                                         *)
Bounce(t) ==
  /\ tab[t].stage = "bouncing"
  /\ GoTo(t)
  /\ UNCHANGED <<serverHash, worker, bypass>>
-----------------------------------------------------------------------------
(* _updateServiceWorkerHash of a page's client: no answer of /grits/ comes *)
(* through a worker, so that what runs is its second case, once per page:  *)
(* it registers a worker, unless the cookie says one is being loaded.      *)
PageRegisters(t) ==
  /\ tab[t].stage = "shown" /\ ~tab[t].attempted
  /\ IF loading THEN UNCHANGED <<worker, loading, tab>>
     ELSE /\ tab' = [tab EXCEPT ![t].attempted = TRUE]
          /\ loading' = TRUE
          /\ worker' = Registered
  /\ UNCHANGED <<serverHash, bypass, since>>

(* Thirty seconds; and eight hours, which do not end between setting the   *)
(* cookie and the navigation of the next line.                             *)
CookieExpires ==
  \/ loading /\ loading' = FALSE /\ UNCHANGED <<serverHash, worker, bypass, tab, since>>
  \/ /\ bypass /\ \A t \in Tab : tab[t].stage # "bouncing"
     /\ bypass' = FALSE
     /\ UNCHANGED <<serverHash, worker, loading, tab, since>>

(* Somebody changes the worker's directory.                                *)
ServerChanges ==
  /\ serverHash < MaxHash
  /\ serverHash' = serverHash + 1
  /\ UNCHANGED <<worker, loading, bypass, tab, since>>

Step(t) == HashCheck(t) \/ Serve(t) \/ Redirected(t) \/ CleanUp(t) \/ Register(t) \/ Bounce(t)

Next ==
  \/ \E t \in Tab :
       \/ Navigate(t) \/ Step(t) \/ HashCheckFails(t) \/ RegisterFails(t) \/ PageRegisters(t)
  \/ Unregistered \/ DeleteCooldown \/ Activate \/ CookieExpires \/ ServerChanges

(* The browser goes on with a navigation, and a worker that is registered  *)
(* installs.                                                               *)
Fairness ==
  /\ \A t \in Tab : WF_swVars(Step(t))
  /\ WF_swVars(Activate) /\ WF_swVars(Unregistered)

Spec == Init /\ [][Next]_swVars /\ Fairness
-----------------------------------------------------------------------------
(* A worker answers a navigation only when its own version was the         *)
(* server's at some time since the navigation began, or the check could    *)
(* not be made (grits-serviceworker.js:146).                               *)
ServedByCurrentWorker ==
  \A t \in Tab : tab[t].stage = "lookup" => tab[t].by >= since[t]

(* Each navigation comes to a page once the other tabs rest and the         *)
(* worker's directory too: the way over the interstitial is not taken for  *)
(* ever (the comment on _unregistering, grits-serviceworker.js:14). Two    *)
(* tabs at the interstitial can go on unregistering each other's worker,   *)
(* and one of them can be left waiting in vain.                            *)
Rests(t) == tab[t].stage \in {"idle", "shown", "vain"}
NavigationsEnd ==
  \A t \in Tab : <>[](\A u \in Tab \ {t} : Rests(u)) => (~Rests(t) ~> Rests(t))
=============================================================================
