--------------------------------- MODULE MCTui ---------------------------------
EXTENDS TuiDaemon

================================================================================
