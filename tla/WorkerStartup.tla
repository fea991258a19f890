--------------------------- MODULE WorkerStartup ---------------------------
(***************************************************************************)
(* What main() of worker_runner.cc sets up before its job loop, in which   *)
(* order, and what StopAllClients takes down when one of them fails.  The  *)
(* clients themselves belong to the CPIO library and are external; the     *)
(* order and the dependencies are main's.  Each client is a name, its      *)
(* Init() and Run() one step that succeeds or not.                         *)
(***************************************************************************)
EXTENDS Naturals, Sequences

(* The components in the order main() creates, initialises and runs them.  *)
StartOrder ==
    << "cpu_async_executor", "io_async_executor", "configuration_fetcher",
       "cpio", "auto_scaling_client", "metric_client", "job_client",
       "job_lifecycle_helper", "blob_storage_client", "blob_streamer" >>

Component == {StartOrder[i] : i \in 1 .. Len(StartOrder)}

(* MUTANT: the helper is stopped after the clients it points to. *)
StopOrderHelperLate ==
    << "job_client", "metric_client", "auto_scaling_client",
       "job_lifecycle_helper", "configuration_fetcher", "io_async_executor",
       "cpu_async_executor", "cpio" >>

(* MUTANT: the configuration fetcher is forgotten. *)
StopOrderNoFetcher ==
    << "job_lifecycle_helper", "job_client", "metric_client",
       "auto_scaling_client", "io_async_executor", "cpu_async_executor",
       "cpio" >>

(* The order of StopAllClients, which ends with ShutdownCpio.  Its first   *)
(* test is of the global blob_storage_client: main() declares a local one  *)
(* of the same name, the global stays null and the test never holds.       *)
StopOrder ==
    << "job_lifecycle_helper", "job_client", "metric_client",
       "auto_scaling_client", "configuration_fetcher", "io_async_executor",
       "cpu_async_executor", "cpio" >>

(* The components a component holds a pointer to, by what main() and the   *)
(* functions it calls pass to the constructors.  The executor and the      *)
(* metric client reach the helper in a MetricInstanceFactory.              *)
PointsTo(c) ==
    CASE c = "job_lifecycle_helper" ->
           {"job_client", "auto_scaling_client", "metric_client",
            "cpu_async_executor"}
      [] c = "cpio" -> {"cpu_async_executor", "io_async_executor"}
      [] c = "blob_streamer" -> {"cpu_async_executor", "blob_storage_client"}
      [] OTHER -> {}
=============================================================================
