---- MODULE MCSizedFetch ----
EXTENDS SizedFetch
====
