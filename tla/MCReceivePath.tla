---------------------------- MODULE MCReceivePath ----------------------------
(***************************************************************************)
(* Small instances of the client's reception for TLC: the datagrams        *)
(* between it and its servers, and the way of the received audio to the    *)
(* sound device.  The two modules share no variable, so a behaviour of     *)
(* both is one behaviour of each: it is enough to let one of them move.    *)
(***************************************************************************)
EXTENDS ReceivePath, Transport

VARIABLE focus

MCPlayoutRanges == {<<1, 1>>, <<2, 1>>}

MCServerKey == [s \in {"new", "old"} |-> IF s = "new" THEN "k1" ELSE "k2"]

MCConfigurations ==
  {[server |-> "new", key |-> "k1", useFEC |-> TRUE], [server |-> "old", key |-> "k2", useFEC |-> FALSE],
   [server |-> "new", key |-> "k3", useFEC |-> FALSE]}

MCInit ==
  /\ focus \in {"playout", "transport"} /\ Init /\ TransportInit
  /\ focus # "playout" => minimumFrames = 1

MCNext ==
  /\ UNCHANGED focus
  /\ \/ focus = "playout" /\ Next /\ UNCHANGED transportVars
     \/ focus = "transport" /\ TransportNext /\ UNCHANGED vars

\* The threads of the client run, and the network delivers all but MaxLosses
\* datagrams.
MCFairness ==
  /\ WF_vars(focus = "playout" /\ Worker)
  /\ WF_vars(focus = "playout" /\ Callback)
  /\ WF_vars(focus = "playout" /\ FinishRequest)
  /\ WF_transportVars(focus = "transport" /\ UpdateGoesOn)
  /\ WF_transportVars(focus = "transport" /\ WorkerSends)
  /\ WF_transportVars(focus = "transport" /\ ServerReceives)
  /\ WF_transportVars(focus = "transport" /\ ClientReceives)
  /\ WF_transportVars(focus = "transport" /\ ReceiveTimeout)

MCSpec == MCInit /\ [][MCNext]_<<focus, vars, transportVars>> /\ MCFairness
=============================================================================
