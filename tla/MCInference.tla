---------------------------- MODULE MCInference -----------------------------
(* The inference of the application, in four parts that are checked side by *)
(* side: the sidecar with its locks (two starts, a stop, a removal, a       *)
(* download and a reinstallation over one model; a process may crash        *)
(* twice), the engine and a model of two files getting on disk, and the     *)
(* store of the user interface.  One part runs, the others stand still.     *)
EXTENDS Sidecar, EngineInstall, ModelDownload, SidecarClient

VARIABLE part

allVars == <<part, sidecarVars, enVars, mdVars, scVars>>
Lengths == <<2, 3>>

Alone(p, A) ==
  /\ part = p /\ A
  /\ UNCHANGED part
  /\ p # "sidecar" => UNCHANGED sidecarVars
  /\ p # "engine" => UNCHANGED enVars
  /\ p # "model" => UNCHANGED mdVars
  /\ p # "client" => UNCHANGED scVars

(* A part that stands still has one initial state.                          *)
MCInit ==
  /\ part \in {"sidecar", "engine", "model", "client"}
  /\ SidecarInit /\ EngineInit /\ DownloadInit /\ ClientInit
  /\ part = "sidecar" \/ (disk = {} /\ ~engine)
  /\ part = "engine" \/ enFinal = "none"
  /\ part = "client" \/ scChild = 0

MCNext ==
  \/ Alone("sidecar", SidecarNext) \/ Alone("engine", EngineNext)
  \/ Alone("model", DownloadNext) \/ Alone("client", ClientNext)

(* The fairness of each part, when it is the one that runs.                 *)
MCFairness ==
  /\ WF_sidecarVars(part = "sidecar" /\ ((\E j \in Jobs : Proceeds(j))
                                        \/ \E w \in watchers : Watcher(w)))
  /\ WF_enVars(part = "engine" /\ EngineStep)
  /\ WF_enVars(part = "engine" /\ InstallBegins(FALSE))
  /\ WF_mdVars(part = "model" /\ DownloadStep)
  /\ WF_scVars(part = "client" /\ Tick) /\ WF_scVars(part = "client" /\ ServerAnswers)
  /\ WF_scVars(part = "client" /\ ProbeReturns)

MCSpec == MCInit /\ [][MCNext]_allVars /\ MCFairness
=============================================================================
