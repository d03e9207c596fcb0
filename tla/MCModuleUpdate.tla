---------------------------- MODULE MCModuleUpdate ----------------------------
(* A small instance of ModuleUpdate: one host with one client or two. *)
EXTENDS ModuleUpdate

CONSTANTS g, e,         \* the clients of CPU 0 and of CPU 1
          a, b          \* modules

OneModule == <<a>>

TwoModules == <<a, b>>
===============================================================================
