---- MODULE MCSandboxBridge ----
EXTENDS SandboxBridge
====
