---- MODULE MCClientTool ----
(* Small instances of ClientTool: all the entries, or the one of PPFG.     *)
EXTENDS ClientTool
AllEntries == DOMAIN request_path_dict
PPFGEntry == {"osdu_ppfgdataset"}
====
