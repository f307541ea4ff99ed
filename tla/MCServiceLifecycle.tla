------------------------- MODULE MCServiceLifecycle -------------------------
(* Instances of ServiceLifecycle for TLC. *)
EXTENDS ServiceLifecycle, TLC

Set(url, brokers, rowsPerBatch, interval) ==
  [url |-> url, brokers |-> brokers, batch |-> rowsPerBatch, interval |-> interval]

\* No database; a batch of one or of two; a list of blank brokers with a batch that
\* is negative or not an int32, and so of the default size.
Environments ==
  {Set("", {}, 1, 1),
   Set("url", {}, 1, NotANumber), Set("url", {"broker", ""}, 2, 0),
   Set("url", {""}, -1, 1), Set("url", {""}, NotANumber, 1)}
=============================================================================
