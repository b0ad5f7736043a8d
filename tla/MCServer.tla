------------------------------ MODULE MCServer ------------------------------
(***************************************************************************)
(* The server's lifecycle, what its administrator installs and changes,    *)
(* its doctors and the door of its web panel in one run: focus is chosen   *)
(* at the start, and the module it names is the one that moves.            *)
(***************************************************************************)
EXTENDS ServerManager, Doctor, Transport, Panel, TLC

\* The callers are alike, and so are the WireGuard ports on offer.
MCSymmetry == Permutations(Callers) \cup Permutations(WgPorts)

VARIABLE focus
serverVars == <<focus, vars, doctorVars, transportVars, panelVars>>

ServerInit ==
    /\ focus \in {"manager", "doctor", "transport", "panel"}
    /\ Init /\ DoctorInit /\ TransportInit /\ PanelInit
    /\ focus # "doctor" => host = "client"
ServerNext ==
    \/ focus = "manager" /\ Next /\ UNCHANGED <<focus, doctorVars, transportVars, panelVars>>
    \/ focus = "doctor" /\ DoctorNext /\ UNCHANGED <<focus, vars, transportVars, panelVars>>
    \/ focus = "transport" /\ TransportNext /\ UNCHANGED <<focus, vars, doctorVars, panelVars>>
    \/ focus = "panel" /\ PanelNext /\ UNCHANGED <<focus, vars, doctorVars, transportVars>>
ServerSpec == ServerInit /\ [][ServerNext]_serverVars
=============================================================================
