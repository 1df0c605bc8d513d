SPECIFICATION Spec
PROPERTIES ShowsWhatItDoes PageSeesTheDirectory DesktopsSettle
\* The tray companion ends.
CHECK_DEADLOCK FALSE
