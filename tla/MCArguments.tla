---- MODULE MCArguments ----
EXTENDS Arguments

\* Zero, the edges of every width and of a second, and some values between.
MCWritten ==
  UNION {{b - 1, b, b + 1} : b \in {0, -2, 8, 16, 500, 1000, 1024, 2048, 4096,
                                    -1024, -2048, -4096}} \cup {999, 1500, 2050, 1027}
====
