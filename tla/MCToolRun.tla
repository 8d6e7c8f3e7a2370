----------------------------- MODULE MCToolRun -----------------------------
(***************************************************************************)
(* A conversion and its retry on one destination, by each kind of tool.    *)
(***************************************************************************)
EXTENDS ToolRun

CONSTANTS size

AllTools == {Z3ds, Makeps3iso, RomzCompress, Nsz}
Silent   == {Chdman}
Required == {Nkit2iso, RomzCompress}
Split    == {Makeps3iso}

\* A split build is not measured, and its retry is not cancelled.
SplitBound == "splits" \in tool => probes' \subseteq Runs \X {"makedirs"} /\ 2 \notin cancel'
MainSpec   == ToolInit /\ [][ToolNext /\ SplitBound]_toolVars /\ \A r \in Runs : WF_toolVars(Step(r))
=============================================================================
