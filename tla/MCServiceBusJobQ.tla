--------------------------- MODULE MCServiceBusJobQ ---------------------------
(* The module of the TLC runs of ServiceBusJobQ.                            *)
EXTENDS ServiceBusJobQ
==============================================================================
