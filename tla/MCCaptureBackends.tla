-------------------------- MODULE MCCaptureBackends --------------------------
EXTENDS CaptureBackends

\* A square under every transform and one with a row less; a square, the same
\* square with padded rows, and one with a row less.
MCDesktops ==
  LET Shape(size, transform) == [size |-> size, transform |-> transform]
      turned == {Shape(<<2, 2, 2>>, t) : t \in {0, 1, 2, 4, 6}}
                  \cup {Shape(<<2, 1, 2>>, 0)}
      padded == {Shape(s, 0) : s \in {<<2, 2, 2>>, <<2, 2, 3>>, <<2, 1, 2>>}}
      ext == {"toplevel_list", "copy_capture", "shm", "toplevel_source",
              "output_source", "output"}
      wlr == {"screencopy", "shm", "output"}
  IN {[globals |-> ext, needs_portal |-> FALSE, lateId |-> FALSE, shapes |-> turned],
      [globals |-> ext \ {"output_source"}, needs_portal |-> FALSE, lateId |-> TRUE,
       shapes |-> turned],
      [globals |-> wlr, needs_portal |-> FALSE, lateId |-> FALSE, shapes |-> padded],
      [globals |-> wlr, needs_portal |-> TRUE, lateId |-> FALSE, shapes |-> padded]}
=============================================================================
