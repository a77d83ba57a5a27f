------------------------ MODULE MCDeliveryTelemetry ------------------------
(***************************************************************************)
(* DeliveryTelemetry on the small instances of MCMeshConsumer.             *)
(***************************************************************************)
EXTENDS DeliveryTelemetry, MCMeshConsumer
=============================================================================
