------------------------- MODULE MCRequestRewrite -------------------------
EXTENDS RequestRewrite

Bare(line)    == [line EXCEPT !.gap = 0]
Forwarded(h)  == [name |-> "xhost", gap |-> 1, value |-> h]

\* No header; one; each order of two that disturb each other; a host twice; a
\* text that ends after its headers; no white space after a colon.
MCHeads == {<<>>, <<Other>>, <<Host(1), Other>>, <<Length(1), Host(1)>>,
            <<Host(Empty), Other>>, <<Host(Empty), Length(3)>>,
            <<Bare(Host(1)), Other>>, <<Bare(Host(Empty)), Other>>,
            <<Host(1), Bare(Host(1))>>, <<Bare(Length(3)), Host(1)>>, <<Spaced(1)>>,
            <<Forwarded(1), Host(1)>>, <<Forwarded(2), Host(1)>>,
            <<Forwarded(1), Length(3)>>, <<Forwarded(Empty), Host(1)>>,
            <<Host(2), Host(1), Length(1), Length(2)>>, <<Length(3), Length(2)>>,
            <<Length(3), Length(3)>>, <<Host(1), Blank>>, <<Length(3), Blank>>}
\* No body; one line; two lines, or one that ends with a separator; three lines.
MCBodies  == {[lines |-> 1, bytes |-> 0], [lines |-> 1, bytes |-> 3],
              [lines |-> 2, bytes |-> 3], [lines |-> 3, bytes |-> 4]}
MCLengths == {3}
=============================================================================
