-------------------------- MODULE MCReaderSession --------------------------
EXTENDS ReaderSession, TLC

CONSTANTS plain, mixed

\* One book of portrait pages, one that ends in a landscape page.
MCWide == plain :> {} @@ mixed :> {1}

\* How pages pair, for books of up to six pages of any shapes.
ASSUME SpreadsAssumption == SpreadsCover(5)
=============================================================================
