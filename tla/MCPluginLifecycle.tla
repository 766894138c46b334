-------------------------- MODULE MCPluginLifecycle --------------------------
(* Model checking PluginLifecycle.  A third content that is no plugin, and *)
(* two locations, let files be replaced and found in an order.             *)
EXTENDS PluginLifecycle
=============================================================================
